---- MODULE Spec2Model ----
(***************************************************************************)
(* A model of the AutoDCF valuation core:                                  *)
(*   - HistoricalRates (AutoDCF/DCF/Historical_Rates_Functions.py): the    *)
(*     percent-change transform and the rate forecasters;                  *)
(*   - DCF (AutoDCF/DCF/dcf_main.py): construction, forcast_categories,    *)
(*     update_category, get_future_fcf, the valuation methods and          *)
(*     calculate_share_price;                                              *)
(*   - PrepareData (AutoDCF/DataPipeline/prepare_data.py): the base-class  *)
(*     constructor and the overridable getters.                            *)
(*                                                                         *)
(* Numbers.  The program computes on IEEE doubles.  A number is modelled   *)
(* as a pair <<n, d>>: for d > 0 the rational n/d in lowest terms, and for *)
(* d = 0 one of the three non-finite doubles: <<1,0>> is +inf, <<-1,0>> is *)
(* -inf and <<0,0>> is NaN.  Arithmetic follows IEEE 754 on the non-finite *)
(* values (inf - inf, 0 * inf, 0 / 0 are NaN; x / 0 is +-inf) and is exact *)
(* on the finite ones; rounding and the sign of zero are not modelled.     *)
(***************************************************************************)
EXTENDS Integers, Sequences, FiniteSets, TLC

(***************************************************************************)
(* Extended rational arithmetic                                            *)
(***************************************************************************)
Abs(x) ==
    IF x < 0 THEN -x ELSE x

Sgn(x) ==
    IF x > 0 THEN 1 ELSE IF x < 0 THEN -1 ELSE 0

RECURSIVE Gcd(_, _)
Gcd(a, b) ==
    IF b = 0 THEN a ELSE Gcd(b, a % b)

\* n/d as a number; d = 0 gives the non-finite value of n's sign
Q(n, d) ==
    IF d = 0 THEN <<Sgn(n), 0>>
    ELSE LET g == Gcd(Abs(n), Abs(d))
         IN  <<(Sgn(d) * n) \div g, Abs(d) \div g>>

I(n) ==
    <<n, 1>>

NaN ==
    <<0, 0>>

PInf ==
    <<1, 0>>

NInf ==
    <<-1, 0>>

IsNaN(a) ==
    a = NaN

IsFinite(a) ==
    a[2] > 0

IsInf(a) ==
    a[2] = 0 /\ a[1] # 0

Neg(a) ==
    <<-a[1], a[2]>>

Add(a, b) ==
    IF IsNaN(a) \/ IsNaN(b) THEN NaN
    ELSE IF IsInf(a) /\ IsInf(b) THEN (IF a = b THEN a ELSE NaN)
    ELSE IF IsInf(a) THEN a
    ELSE IF IsInf(b) THEN b
    ELSE LET g == Gcd(a[2], b[2])
         IN  Q(a[1] * (b[2] \div g) + b[1] * (a[2] \div g), (a[2] \div g) * b[2])

Sub(a, b) ==
    Add(a, Neg(b))

Mul(a, b) ==
    IF IsNaN(a) \/ IsNaN(b) THEN NaN
    ELSE IF IsInf(a) \/ IsInf(b)
         THEN (IF a[1] = 0 \/ b[1] = 0 THEN NaN ELSE <<Sgn(a[1]) * Sgn(b[1]), 0>>)
    ELSE LET g1 == Gcd(Abs(a[1]), b[2])
             g2 == Gcd(Abs(b[1]), a[2])
         IN  Q((a[1] \div g1) * (b[1] \div g2), (a[2] \div g2) * (b[2] \div g1))

Div(a, b) ==
    IF IsNaN(a) \/ IsNaN(b) THEN NaN
    ELSE IF IsInf(a) THEN (IF IsInf(b) THEN NaN
                           ELSE IF b[1] < 0 THEN Neg(a) ELSE a)
    ELSE IF IsInf(b) THEN I(0)
    ELSE IF b[1] = 0 THEN (IF a[1] = 0 THEN NaN ELSE <<Sgn(a[1]), 0>>)
    ELSE Mul(a, Q(b[2], b[1]))

\* a < b, a <= b, a == b on doubles: every comparison with NaN is false
Lt(a, b) ==
    /\ ~IsNaN(a)
    /\ ~IsNaN(b)
    /\ a # b
    /\ IF IsInf(a) THEN a = NInf
       ELSE IF IsInf(b) THEN b = PInf
       ELSE a[1] * b[2] < b[1] * a[2]

Eq(a, b) ==
    ~IsNaN(a) /\ a = b

Le(a, b) ==
    Lt(a, b) \/ Eq(a, b)

AbsQ(a) ==
    <<Abs(a[1]), a[2]>>

\* Python truthiness of a float: 0.0 is falsy, everything else (NaN too) truthy
Truthy(a) ==
    a # I(0)

RECURSIVE SumFrom(_, _, _)
SumFrom(acc, s, k) ==
    IF k > Len(s) THEN acc ELSE SumFrom(Add(acc, s[k]), s, k + 1)

\* the builtin sum(): a left fold from 0
Sum(s) ==
    SumFrom(I(0), s, 1)

\* s[-w:] of a Python list, for w >= 0 (s[-0:] is the whole list)
LastN(s, w) ==
    IF w = 0 \/ w >= Len(s) THEN s ELSE SubSeq(s, Len(s) - w + 1, Len(s))

Last(s) ==
    s[Len(s)]

\* the outcome of a call: a returned value or a raised exception
Ok(v) ==
    [st |-> "ok", val |-> v, err |-> "none"]

Raise(e) ==
    [st |-> "raise", val |-> <<>>, err |-> e]

(***************************************************************************)
(* HistoricalRates                                                         *)
(***************************************************************************)
\* a variant of the quotient that divides each difference by the later value
RawDiffs_ByLaterValue(data) ==
    [i \in 1..(IF Len(data) = 0 THEN 0 ELSE Len(data) - 1) |->
        Div(Sub(data[i + 1], data[i]), data[i + 1])]

\* np.diff(data) / data[:-1]
RawDiffs(data) ==
    [i \in 1..(IF Len(data) = 0 THEN 0 ELSE Len(data) - 1) |->
        Div(Sub(data[i + 1], data[i]), data[i])]

\* diff[~np.isnan(diff)]
DropNaN(s) ==
    SelectSeq(s, LAMBDA x : ~IsNaN(x))

percent_change(data) ==
    <<I(0)>> \o DropNaN(RawDiffs(data))

\* the decorator: the wrapped forecaster receives percent_change(data)
format_percent_change(data) ==
    percent_change(data)

\* a terminal_rate argument: a number, or a string that was not substituted
Num(v) ==
    [k |-> "num", v |-> v, s |-> ""]

Str(s) ==
    [k |-> "str", v |-> NaN, s |-> s]

\* the size check every forecaster ends with
SizeChecked(out, data, period) ==
    IF Len(out) = Len(data) + period THEN Ok(out)
    ELSE Raise("AssertionError: Mismatch in Size")

\* (1 - alpha) * x + alpha * terminal_rate with alpha = (i + 1) / period
Blend(x, i, period, terminal_rate) ==
    LET alpha == Q(i + 1, period)
    IN  Add(Mul(Sub(I(1), alpha), x), Mul(alpha, terminal_rate))

\* a variant of the loop of MovingAverage that stops one forecast short
RECURSIVE MovingAverageLoop_OneShort(_, _, _, _)
MovingAverageLoop_OneShort(data_copy, i, period, window) ==
    IF i >= period - 1 THEN data_copy
    ELSE MovingAverageLoop_OneShort(
            Append(data_copy, Div(Sum(LastN(data_copy, window)), I(window))),
            i + 1, period, window)

RECURSIVE MovingAverageLoop(_, _, _, _)
MovingAverageLoop(data_copy, i, period, window) ==
    IF i >= period THEN data_copy
    ELSE MovingAverageLoop(
            Append(data_copy, Div(Sum(LastN(data_copy, window)), I(window))),
            i + 1, period, window)

MovingAverage(period, data, window) ==
    LET p == format_percent_change(data)
    IN  IF ~(window <= Len(p)) THEN Raise("AssertionError: window")
        ELSE SizeChecked(MovingAverageLoop(p, 0, period, window), p, period)

RECURSIVE ConvergingMovingAverageLoop(_, _, _, _, _)
ConvergingMovingAverageLoop(data_copy, i, period, window, terminal_rate) ==
    IF i >= period THEN data_copy
    ELSE ConvergingMovingAverageLoop(
            Append(data_copy,
                   Blend(Div(Sum(LastN(data_copy, window)), I(window)),
                         i, period, terminal_rate)),
            i + 1, period, window, terminal_rate)

ConvergingMovingAverage(period, data, window, terminal_rate) ==
    LET p == format_percent_change(data)
    IN  IF ~(window <= Len(p)) THEN Raise("AssertionError: window")
        ELSE IF terminal_rate.k = "num" /\ ~Truthy(terminal_rate.v)
             THEN Raise("AssertionError: terminal_rate")
        ELSE IF terminal_rate.k = "str"
             THEN (IF period > 0 THEN Raise("TypeError") ELSE SizeChecked(p, p, period))
        ELSE SizeChecked(
                ConvergingMovingAverageLoop(p, 0, period, window, terminal_rate.v),
                p, period)

\* alpha if alpha else 2 / (window + 1); an absent alpha is passed as 0
DefaultAlpha(alpha, window) ==
    IF Truthy(alpha) THEN alpha ELSE Div(I(2), I(window + 1))

Ema(data_copy, window, alpha) ==
    Add(Mul(alpha, Div(Sum(LastN(data_copy, window)), I(window))),
        Mul(Sub(I(1), alpha), Last(data_copy)))

RECURSIVE ExponentialMovingAverageLoop(_, _, _, _, _)
ExponentialMovingAverageLoop(data_copy, i, period, window, alpha) ==
    IF i >= period THEN data_copy
    ELSE ExponentialMovingAverageLoop(
            Append(data_copy, Ema(data_copy, window, alpha)),
            i + 1, period, window, alpha)

ExponentialMovingAverage(period, data, window, alpha) ==
    LET p == format_percent_change(data)
    IN  IF ~(window <= Len(p)) THEN Raise("AssertionError: window")
        ELSE SizeChecked(
                ExponentialMovingAverageLoop(p, 0, period, window,
                                             DefaultAlpha(alpha, window)),
                p, period)

RECURSIVE ConvergingExponentialMovingAverageLoop(_, _, _, _, _, _)
ConvergingExponentialMovingAverageLoop(data_copy, i, period, window, terminal_rate, alpha) ==
    IF i >= period THEN data_copy
    ELSE ConvergingExponentialMovingAverageLoop(
            Append(data_copy,
                   Blend(Ema(data_copy, window, alpha), i, period, terminal_rate)),
            i + 1, period, window, terminal_rate, alpha)

ConvergingExponentialMovingAverage(period, data, window, terminal_rate, alpha) ==
    LET p == format_percent_change(data)
    IN  IF ~(window <= Len(p)) THEN Raise("AssertionError: window")
        ELSE IF terminal_rate.k = "num" /\ ~Truthy(terminal_rate.v)
             THEN Raise("AssertionError: terminal_rate")
        ELSE IF terminal_rate.k = "str"
             THEN (IF period > 0 THEN Raise("TypeError") ELSE SizeChecked(p, p, period))
        ELSE SizeChecked(
                ConvergingExponentialMovingAverageLoop(
                    p, 0, period, window, terminal_rate.v,
                    DefaultAlpha(alpha, window)),
                p, period)

\* sum([weight * rate for weight, rate in zip(weights, select_years)])
WeightedSum(weights, select_years) ==
    LET n == IF Len(weights) < Len(select_years) THEN Len(weights)
             ELSE Len(select_years)
    IN  Sum([j \in 1..n |-> Mul(weights[j], select_years[j])])

RECURSIVE WeightedMovingAverageLoop(_, _, _, _, _)
WeightedMovingAverageLoop(data_copy, i, period, window, weights) ==
    IF i >= period THEN data_copy
    ELSE WeightedMovingAverageLoop(
            Append(data_copy, WeightedSum(weights, LastN(data_copy, window))),
            i + 1, period, window, weights)

WeightedMovingAverage(period, data, window, weights) ==
    LET p == format_percent_change(data)
    IN  IF ~(window <= Len(p)) THEN Raise("AssertionError: window")
        ELSE IF window # Len(weights) THEN Raise("AssertionError: weights")
        ELSE SizeChecked(WeightedMovingAverageLoop(p, 0, period, window, weights),
                         p, period)

RECURSIVE ConvergingWeightedMovingAverageLoop(_, _, _, _, _, _)
ConvergingWeightedMovingAverageLoop(data_copy, i, period, window, weights, terminal_rate) ==
    IF i >= period THEN data_copy
    ELSE ConvergingWeightedMovingAverageLoop(
            Append(data_copy,
                   Blend(WeightedSum(weights, LastN(data_copy, window)),
                         i, period, terminal_rate)),
            i + 1, period, window, weights, terminal_rate)

ConvergingWeightedMovingAverage(period, data, window, weights, terminal_rate) ==
    LET p == format_percent_change(data)
    IN  IF ~(window <= Len(p)) THEN Raise("AssertionError: window")
        ELSE IF window # Len(weights) THEN Raise("AssertionError: weights")
        ELSE IF terminal_rate.k = "str"
             THEN (IF period > 0 THEN Raise("TypeError") ELSE SizeChecked(p, p, period))
        ELSE SizeChecked(
                ConvergingWeightedMovingAverageLoop(p, 0, period, window, weights,
                                                    terminal_rate.v),
                p, period)

RECURSIVE MeanRevertingLoop(_, _, _, _, _, _)
MeanRevertingLoop(data_copy, i, period, terminal_rate, phi, kappa) ==
    IF i >= period THEN data_copy
    ELSE LET last   == Last(data_copy)
             delta1 == Sub(last, data_copy[Len(data_copy) - 1])
             delta2 == Sub(last, terminal_rate)
         IN  MeanRevertingLoop(
                Append(data_copy,
                       Sub(Add(last, Mul(phi, delta1)), Mul(kappa, delta2))),
                i + 1, period, terminal_rate, phi, kappa)

MeanReverting(period, data, terminal_rate, phi, kappa) ==
    LET p == format_percent_change(data)
    IN  IF ~(Len(p) >= 2) THEN Raise("AssertionError: len(data) >= 2")
        ELSE IF terminal_rate.k = "str"
             THEN (IF period > 0 THEN Raise("TypeError") ELSE SizeChecked(p, p, period))
        ELSE SizeChecked(MeanRevertingLoop(p, 0, period, terminal_rate.v, phi, kappa),
                         p, period)

\* np.linspace(start, stop, num), endpoint included
Linspace(start, stop, num) ==
    [j \in 1..num |->
        IF j = 1 THEN start
        ELSE IF j = num THEN stop
        ELSE Add(start, Mul(I(j - 1), Div(Sub(stop, start), I(num - 1))))]

\* the size check of LinearRate compares the copy with the data it was copied from
LinearRate(period, data, terminal_rate) ==
    LET p == format_percent_change(data)
        data_copy == p
    IN  IF terminal_rate.k = "str" THEN Raise("TypeError")
        ELSE LET arr == Linspace(Last(data_copy), terminal_rate.v, period)
             IN  IF Len(data_copy) = Len(p) + period THEN Ok(arr)
                 ELSE Raise("AssertionError: Mismatch in Size")

\* values np.random.uniform(-m, m) can return: the interval [-m, m)
\* a variant that draws from twice the width
UniformDraws_TwiceAsWide(m) ==
    IF m = I(0) THEN {I(0)} ELSE {Neg(Mul(I(2), m)), I(0), m}

\* np.random.uniform(-m, m): representatives of [-m, m)
UniformDraws(m) ==
    IF m = I(0) THEN {I(0)} ELSE {Neg(m), I(0), Div(m, I(2))}

\* Uniform is random: the set of its possible outcomes
Uniform(period, data, max_randomness) ==
    LET p == format_percent_change(data)
    IN  { SizeChecked(
            p \o [j \in 1..period |-> Mul(Last(p), Add(I(1), u[j]))], p, period) :
          u \in [1..period -> UniformDraws(max_randomness)] }

\* np.mean and np.var of an array
Mean(s) ==
    Div(Sum(s), I(Len(s)))

Var(s) ==
    LET m == Mean(s)
    IN  Div(Sum([j \in 1..Len(s) |-> Mul(Sub(s[j], m), Sub(s[j], m))]), I(Len(s)))

\* sigma is carried as its square (sqrt is monotone and sqrt(0) = 0), so
\* "not sigma" is "sigma2 is 0"; an absent sigma (None) is passed as 0
NextSigma2(sigma2, data_copy) ==
    IF ~Truthy(sigma2) THEN Var(data_copy) ELSE sigma2

\* np.percentile of data_copy[-1] * (1 + random.gauss(mean, sigma)) over the
\* episodes.  With sigma = 0 every sample is the mean.  With a finite sigma # 0
\* the samples are unbounded, so for a last value other than 0 the percentile
\* can be any real (two representatives); for a last value of 0 it is 0.
\* With a non-finite operand the result is non-finite.
PercentileValues(last, mean, sigma2) ==
    IF IsFinite(last) /\ IsFinite(mean) /\ IsFinite(sigma2)
    THEN (IF Truthy(sigma2) /\ Truthy(last) THEN {I(-1), Q(1, 2)}
          ELSE {Mul(last, Add(I(1), mean))})
    ELSE {Mul(last, Add(I(1), Add(mean, Mul(sigma2, I(0))))), NaN}

\* one step of the Monte Carlo loop from the loop state st: the possible
\* next loop states (data_copy, sigma, the sigma used at every step and the
\* number of times sigma was computed from data_copy)
MonteCarloStep(st, i, period, terminal_rate, converging) ==
    LET mean   == Mean(st.data_copy)
        sigma2 == NextSigma2(st.sigma2, st.data_copy)
    IN  { LET blended == IF converging
                         THEN Blend(forecast_value, i, period, terminal_rate)
                         ELSE forecast_value
          IN  [data_copy |-> Append(st.data_copy, blended),
               sigma2    |-> sigma2,
               used      |-> Append(st.used, sigma2),
               computed  |-> IF ~Truthy(st.sigma2) THEN st.computed + 1
                             ELSE st.computed] :
          forecast_value \in PercentileValues(Last(st.data_copy), mean, sigma2) }

RECURSIVE MonteCarloLoop(_, _, _, _, _)
MonteCarloLoop(sts, i, period, terminal_rate, converging) ==
    IF i >= period THEN sts
    ELSE MonteCarloLoop(
            UNION { MonteCarloStep(st, i, period, terminal_rate, converging) :
                    st \in sts },
            i + 1, period, terminal_rate, converging)

MonteCarloRuns(period, p, sigma2, terminal_rate, converging) ==
    MonteCarloLoop({[data_copy |-> p, sigma2 |-> sigma2, used |-> <<>>,
                     computed |-> 0]},
                   0, period, terminal_rate, converging)

\* a run of the loop as the caller and an observer of sigma see it
Traced(st, p, period) ==
    [out |-> SizeChecked(st.data_copy, p, period), used |-> st.used,
     computed |-> st.computed]

Untraced(e) ==
    [out |-> e, used |-> <<>>, computed |-> 0]

\* MonteCarlo is random: the set of its possible runs
MonteCarloTraces(period, data, sigma2) ==
    LET p == format_percent_change(data)
    IN  { Traced(st, p, period) :
          st \in MonteCarloRuns(period, p, sigma2, I(0), FALSE) }

\* the set of its possible outcomes
MonteCarlo(period, data, sigma2) ==
    { t.out : t \in MonteCarloTraces(period, data, sigma2) }

ConvergingMonteCarloTraces(period, data, terminal_rate, sigma2) ==
    LET p == format_percent_change(data)
    IN  IF terminal_rate.k = "num" /\ ~Truthy(terminal_rate.v)
        THEN {Untraced(Raise("AssertionError: terminal_rate"))}
        ELSE IF terminal_rate.k = "str"
             THEN (IF period > 0 THEN {Untraced(Raise("TypeError"))}
                   ELSE {Untraced(SizeChecked(p, p, period))})
        ELSE { Traced(st, p, period) :
               st \in MonteCarloRuns(period, p, sigma2, terminal_rate.v, TRUE) }

ConvergingMonteCarlo(period, data, terminal_rate, sigma2) ==
    { t.out : t \in ConvergingMonteCarloTraces(period, data, terminal_rate, sigma2) }

(***************************************************************************)
(* DCF.get_auto_rates: dispatch by name with params as keyword arguments   *)
(***************************************************************************)
ForecasterNames ==
    {"MovingAverage", "ConvergingMovingAverage", "ExponentialMovingAverage",
     "ConvergingExponentialMovingAverage", "WeightedMovingAverage",
     "ConvergingWeightedMovingAverage", "MeanReverting", "LinearRate",
     "Uniform", "MonteCarlo", "ConvergingMonteCarlo"}

\* the keyword arguments each forecaster requires and accepts
RequiredKeys(rate_type) ==
    CASE rate_type = "MovingAverage" -> {"window"}
      [] rate_type = "ConvergingMovingAverage" -> {"window", "terminal_rate"}
      [] rate_type = "ExponentialMovingAverage" -> {"window"}
      [] rate_type = "ConvergingExponentialMovingAverage" -> {"window", "terminal_rate"}
      [] rate_type = "WeightedMovingAverage" -> {"window", "weights"}
      [] rate_type = "ConvergingWeightedMovingAverage" ->
            {"window", "weights", "terminal_rate"}
      [] rate_type = "MeanReverting" -> {"terminal_rate"}
      [] rate_type = "LinearRate" -> {"terminal_rate"}
      [] rate_type = "ConvergingMonteCarlo" -> {"terminal_rate"}
      [] OTHER -> {}

OptionalKeys(rate_type) ==
    CASE rate_type \in {"ExponentialMovingAverage",
                        "ConvergingExponentialMovingAverage"} -> {"alpha"}
      [] rate_type = "MeanReverting" -> {"phi", "kappa"}
      [] rate_type = "Uniform" -> {"max_randomness"}
      [] rate_type \in {"MonteCarlo", "ConvergingMonteCarlo"} -> {"sigma"}
      [] OTHER -> {}

\* params.get(key, default)
Get(params, key, default) ==
    IF key \in DOMAIN params THEN params[key] ELSE default

\* the possible outcomes of rate_func(period, data, **params); the value under
\* "sigma" is the square of the sigma argument; percentile and episodes are
\* left at their defaults
CallForecaster(period, data, rate_type, params) ==
    CASE rate_type = "MovingAverage" ->
            {MovingAverage(period, data, params.window)}
      [] rate_type = "ConvergingMovingAverage" ->
            {ConvergingMovingAverage(period, data, params.window, params.terminal_rate)}
      [] rate_type = "ExponentialMovingAverage" ->
            {ExponentialMovingAverage(period, data, params.window,
                                      Get(params, "alpha", I(0)))}
      [] rate_type = "ConvergingExponentialMovingAverage" ->
            {ConvergingExponentialMovingAverage(period, data, params.window,
                params.terminal_rate, Get(params, "alpha", I(0)))}
      [] rate_type = "WeightedMovingAverage" ->
            {WeightedMovingAverage(period, data, params.window, params.weights)}
      [] rate_type = "ConvergingWeightedMovingAverage" ->
            {ConvergingWeightedMovingAverage(period, data, params.window,
                params.weights, params.terminal_rate)}
      [] rate_type = "MeanReverting" ->
            {MeanReverting(period, data, params.terminal_rate,
                           Get(params, "phi", Q(7, 10)), Get(params, "kappa", Q(2, 10)))}
      [] rate_type = "LinearRate" ->
            {LinearRate(period, data, params.terminal_rate)}
      [] rate_type = "Uniform" ->
            Uniform(period, data, Get(params, "max_randomness", I(0)))
      [] rate_type = "MonteCarlo" ->
            MonteCarlo(period, data, Get(params, "sigma", I(0)))
      [] rate_type = "ConvergingMonteCarlo" ->
            ConvergingMonteCarlo(period, data, params.terminal_rate,
                                 Get(params, "sigma", I(0)))

get_auto_rates(period, data, rate_type, params) ==
    IF rate_type \notin ForecasterNames
    THEN {Raise("AssertionError: HistoricalRates has no attribute")}
    ELSE IF ~( /\ RequiredKeys(rate_type) \subseteq DOMAIN params
               /\ DOMAIN params \subseteq
                    RequiredKeys(rate_type) \cup OptionalKeys(rate_type) )
         THEN {Raise("TypeError")}
    ELSE CallForecaster(period, data, rate_type, params)

(***************************************************************************)
(* DCF.update_category                                                     *)
(***************************************************************************)
\* a variant of np.cumprod that multiplies nothing together
CumProd_Elementwise(acc, s, k) ==
    [j \in 1..(Len(s) + 1 - k) |-> Mul(acc, s[j + k - 1])]

RECURSIVE CumProd(_, _, _)
CumProd(acc, s, k) ==
    IF k > Len(s) THEN <<>>
    ELSE <<Mul(acc, s[k])>> \o CumProd(Mul(acc, s[k]), s, k + 1)

\* a variant of the compounding that starts from the first cell of the column
CompoundedValues_FromFirstCell(column, rates, period, historical_period) ==
    LET tail == LastN(rates, period)
        cum_prod_rates == CumProd(I(1), [j \in 1..Len(tail) |-> Add(tail[j], I(1))], 1)
    IN  [j \in 1..Len(tail) |-> Mul(cum_prod_rates[j], column[1])]

\* np.cumprod(rates[-period:] + 1) * float(column.iloc[historical_period - 1])
CompoundedValues(column, rates, period, historical_period) ==
    LET tail == LastN(rates, period)
        cum_prod_rates == CumProd(I(1), [j \in 1..Len(tail) |-> Add(tail[j], I(1))], 1)
    IN  [j \in 1..Len(tail) |-> Mul(cum_prod_rates[j], column[historical_period])]

\* a variant of update_category that lays the series over the column one row
\* early, whatever the cells hold
update_category_OneRowEarly(column, rates, period, historical_period) ==
    LET cum_prod_series == CompoundedValues(column, rates, period, historical_period)
        first == Len(column) - period - 1
    IN  [r \in 1..Len(column) |->
            IF r > first /\ r - first <= Len(cum_prod_series)
            THEN cum_prod_series[r - first]
            ELSE column[r]]

\* column.fillna(series indexed by the last `period` dates): only cells that
\* are NaN and lie in the last `period` rows are written
update_category(column, rates, period, historical_period) ==
    LET cum_prod_series == CompoundedValues(column, rates, period, historical_period)
        first == Len(column) - period
    IN  [r \in 1..Len(column) |->
            IF IsNaN(column[r]) /\ r > first THEN cum_prod_series[r - first]
            ELSE column[r]]

(***************************************************************************)
(* The state of a DCF object under construction                            *)
(***************************************************************************)
VARIABLES
    pc,                 \* the statement of DCF.__init__ reached
    manual_input,       \* Forecasted_Period and Historical_Period as configured
    historical_period,  \* self.historical_period
    period,             \* self.period
    sheets,             \* the provider's statement rows, latest first
    wacc,               \* self.wacc
    terminal_rate,      \* self.terminal_rate
    dcf,                \* self.dcf: column name -> cells in ascending date order
    rate_map,           \* self.rate_map: column name -> forecast configuration
    method,             \* self.method
    export,             \* self.export
    price,              \* self.price: unset (None) or a number
    col_i,              \* forcast_categories: the position of its column loop
    logged,             \* the columns forcast_categories printed a message for
    exported,           \* export_to_excel was invoked
    err,                \* the exception that ended the run, or "none"
    requests,           \* the HTTP requests sent so far, each with the statement
                        \* of DCF.__init__ that was running when it was sent
    ev_ebidta_mode,     \* self.ev_ebidta_mode
    basket,             \* get_ev_ebidta_multiple: the peers Finnhub answered
    exit_multiple       \* exit_multiple_method: the multiple it obtained

fetchVars ==
    <<requests, ev_ebidta_mode, basket, exit_multiple>>

dcfVars ==
    <<pc, manual_input, historical_period, period, sheets, wacc, terminal_rate,
      dcf, rate_map, method, export, price, col_i, logged, exported, err,
      fetchVars>>

(***************************************************************************)
(* The forecasters and update_category applied to one column               *)
(***************************************************************************)
Unset ==
    [set |-> FALSE, v |-> NaN]

Value(v) ==
    [set |-> TRUE, v |-> v]

NoSheets ==
    <<>>

NoTable ==
    [revenue |-> <<>>]

NoRateMap ==
    [revenue |-> [mode |-> "unset"]]

\* no peers were asked for
NoBasket ==
    [fetched |-> FALSE, peers |-> <<>>]

InitDCFVars ==
    /\ pc = "init"
    /\ historical_period = 0
    /\ period = 0
    /\ sheets = NoSheets
    /\ wacc = NaN
    /\ terminal_rate = NaN
    /\ dcf = NoTable
    /\ rate_map = NoRateMap
    /\ method = ""
    /\ export = FALSE
    /\ price = Unset
    /\ col_i = 0
    /\ logged = {}
    /\ exported = FALSE
    /\ err = "none"
    /\ requests = <<>>
    /\ ev_ebidta_mode = ""
    /\ basket = NoBasket
    /\ exit_multiple = NaN

\* the value of manual_input while no DCF object is being constructed
NoInput ==
    [Forecasted_Period |-> 0, Historical_Period |-> 0]

VARIABLES
    fdata,      \* the series passed to the forecaster: history, then NaN rows
    fhist,      \* historical_period: the number of historical rows of fdata
    fperiod,    \* period: the horizon passed to the forecaster
    fcall,      \* the forecaster invoked and its parameters
    fret,       \* what the forecaster returned or raised
    fcol,       \* the column after its rates were assigned and compounded
    capital_cost,       \* the inputs of the cost of capital (CapitalCostConfig)
    wacc_results,       \* what each WACC implementation returned for them
    override_results    \* what each overridable getter returned, and whether
                        \* its automatic computation ran

unitVars ==
    <<capital_cost, wacc_results, override_results>>

rateVars ==
    <<fdata, fhist, fperiod, fcall, fret, fcol, unitVars>>

NoCapitalCost ==
    [beta |-> NaN]

NoResults ==
    <<>>

InitUnitVars ==
    /\ capital_cost = NoCapitalCost
    /\ wacc_results = NoResults
    /\ override_results = NoResults

vars ==
    <<dcfVars, rateVars>>

MaxHist ==
    3

MaxPeriod ==
    2

RawValues ==
    {I(0), I(1), I(2)}

\* the series of the specification's worked examples, each forecast 1 period
ScenarioSeries ==
    {<<I(100), I(110), I(121), Q(1331, 10)>>, <<I(1), I(2), I(3)>>}

Histories ==
    UNION {[1..n -> RawValues] : n \in 1..MaxHist}

ForecastInputs ==
    (Histories \X (0..MaxPeriod)) \cup (ScenarioSeries \X {1})

NaNs(k) ==
    [j \in 1..k |-> NaN]

TerminalRates ==
    {I(0), Q(1, 2), Q(-1, 4), I(20)}

Alphas ==
    {I(0), Q(1, 2)}

WeightLists ==
    {[j \in 1..w |-> Q(1, w)] : w \in 1..MaxHist}

NoCall ==
    [name |-> "none"]

Pending ==
    [st |-> "pending", val |-> <<>>, err |-> "none"]

InitRates ==
    /\ \E in \in ForecastInputs :
        \E pad \in {0, in[2]} :
          /\ fdata = in[1] \o NaNs(pad)
          /\ fhist = Len(in[1])
          /\ fperiod = in[2]
    /\ fcall = NoCall
    /\ fret = Pending
    /\ fcol = Pending
    /\ InitUnitVars
    /\ manual_input = NoInput
    /\ InitDCFVars

Windows ==
    0..(fhist + 1)

\* The objects of one call, in the order of their allocation: the caller's
\* series is the first.
CallerSeries ==
    1

\* a variant of line 24 that also writes the converted values into the series
\* it was given
Rebound_InPlace(objects) ==
    Append([objects EXCEPT ![CallerSeries] = percent_change(@)],
           percent_change(objects[CallerSeries]))

\* line 24, data = HistoricalRates.percent_change(data): the local name is
\* bound to the array percent_change allocates (np.diff, the division, the
\* mask and np.insert each build a new array; the series is only read)
Rebound(objects) ==
    Append(objects, percent_change(objects[CallerSeries]))

\* the objects when the call returns or raises: the forecaster binds
\* data_copy to data.copy() (lines 78, 104, ..., 343) and appends to, or
\* rebuilds, that copy, which is what it returns
ObjectsAfter(series, outcome) ==
    LET bound == Rebound(<<series>>)
        copied == Append(bound, bound[Len(bound)])
    IN  IF outcome.st = "ok"
        THEN [copied EXCEPT ![Len(copied)] = outcome.val]
        ELSE copied

Invoke(call, outcome) ==
    /\ fcall' = call
    /\ fret' = outcome
    /\ fdata' = ObjectsAfter(fdata, outcome)[CallerSeries]
    /\ UNCHANGED <<fhist, fperiod, fcol, dcfVars, unitVars>>

CallMovingAverage ==
    /\ fcall = NoCall
    /\ \E window \in Windows :
           Invoke([name |-> "MovingAverage", window |-> window],
                  MovingAverage(fperiod, fdata, window))

CallConvergingMovingAverage ==
    /\ fcall = NoCall
    /\ \E window \in Windows, t \in TerminalRates :
           Invoke([name |-> "ConvergingMovingAverage", window |-> window,
                   terminal_rate |-> t],
                  ConvergingMovingAverage(fperiod, fdata, window, Num(t)))

CallExponentialMovingAverage ==
    /\ fcall = NoCall
    /\ \E window \in Windows, alpha \in Alphas :
           Invoke([name |-> "ExponentialMovingAverage", window |-> window,
                   alpha |-> alpha],
                  ExponentialMovingAverage(fperiod, fdata, window, alpha))

CallConvergingExponentialMovingAverage ==
    /\ fcall = NoCall
    /\ \E window \in Windows, t \in TerminalRates, alpha \in Alphas :
           Invoke([name |-> "ConvergingExponentialMovingAverage", window |-> window,
                   terminal_rate |-> t, alpha |-> alpha],
                  ConvergingExponentialMovingAverage(fperiod, fdata, window, Num(t), alpha))

CallWeightedMovingAverage ==
    /\ fcall = NoCall
    /\ \E window \in Windows, weights \in WeightLists :
           Invoke([name |-> "WeightedMovingAverage", window |-> window,
                   weights |-> weights],
                  WeightedMovingAverage(fperiod, fdata, window, weights))

CallConvergingWeightedMovingAverage ==
    /\ fcall = NoCall
    /\ \E window \in Windows, weights \in WeightLists, t \in TerminalRates :
           Invoke([name |-> "ConvergingWeightedMovingAverage", window |-> window,
                   weights |-> weights, terminal_rate |-> t],
                  ConvergingWeightedMovingAverage(fperiod, fdata, window, weights, Num(t)))

CallMeanReverting ==
    /\ fcall = NoCall
    /\ \E t \in TerminalRates :
           Invoke([name |-> "MeanReverting", terminal_rate |-> t],
                  MeanReverting(fperiod, fdata, Num(t), Q(7, 10), Q(2, 10)))

CallLinearRate ==
    /\ fcall = NoCall
    /\ \E t \in TerminalRates :
           Invoke([name |-> "LinearRate", terminal_rate |-> t],
                  LinearRate(fperiod, fdata, Num(t)))

CallUniform ==
    /\ fcall = NoCall
    /\ \E m \in {I(0), Q(1, 2)} :
           \E out \in Uniform(fperiod, fdata, m) :
               Invoke([name |-> "Uniform", max_randomness |-> m], out)

CallMonteCarlo ==
    /\ fcall = NoCall
    /\ \E sigma2 \in {I(0), Q(1, 4)} :
           \E run \in MonteCarloTraces(fperiod, fdata, sigma2) :
               Invoke([name |-> "MonteCarlo", sigma2 |-> sigma2,
                       used |-> run.used, computed |-> run.computed], run.out)

CallConvergingMonteCarlo ==
    /\ fcall = NoCall
    /\ \E sigma2 \in {I(0), Q(1, 4)}, t \in TerminalRates :
           \E run \in ConvergingMonteCarloTraces(fperiod, fdata, Num(t), sigma2) :
               Invoke([name |-> "ConvergingMonteCarlo", sigma2 |-> sigma2,
                       terminal_rate |-> t, used |-> run.used,
                       computed |-> run.computed], run.out)

ManualValues ==
    {I(-1), I(0), Q(1, 2)}

\* manual mode: the rate series is percent_change(column) + manual_rates
CallManual ==
    /\ fcall = NoCall
    /\ \E manual_rates \in [1..fperiod -> ManualValues] :
           Invoke([name |-> "manual", manual_rates |-> manual_rates],
                  Ok(percent_change(fdata) \o manual_rates))

\* dcf[column + '_rates'] = rates; update_category(column): the column has
\* fperiod future rows, and a rate series of another length cannot be assigned
ApplyRates ==
    /\ fret.st = "ok"
    /\ fcol = Pending
    /\ fperiod >= 1
    /\ Len(fdata) = fhist + fperiod
    /\ fcol' = IF Len(fret.val) # Len(fdata)
               THEN Raise("ValueError: Length of values does not match length of index")
               ELSE Ok(update_category(fdata, fret.val, fperiod, fhist))
    /\ UNCHANGED <<fdata, fhist, fperiod, fcall, fret, dcfVars, unitVars>>

NextRates ==
    \/ CallMovingAverage
    \/ CallConvergingMovingAverage
    \/ CallExponentialMovingAverage
    \/ CallConvergingExponentialMovingAverage
    \/ CallWeightedMovingAverage
    \/ CallConvergingWeightedMovingAverage
    \/ CallMeanReverting
    \/ CallLinearRate
    \/ CallUniform
    \/ CallMonteCarlo
    \/ CallConvergingMonteCarlo
    \/ CallManual
    \/ ApplyRates

SpecRates ==
    InitRates /\ [][NextRates]_vars

(***************************************************************************)
(* Properties of the forecasters                                           *)
(***************************************************************************)
\* |a - b| <= tol
Near(a, b, tol) ==
    Le(AbsQ(Sub(a, b)), tol)

\* the exceptions the parameter checks of the forecasters raise
ParameterCheckErrors ==
    {"AssertionError: window", "AssertionError: weights",
     "AssertionError: terminal_rate", "AssertionError: len(data) >= 2"}

\* C2: every forecaster other than LinearRate, for every horizon and every
\* input that passes its parameter checks, returns a series of length
\* len(p) + horizon whose first len(p) entries are p, the percent-change form
\* of the input; the size assertion never fires.
C2_ForecastLength ==
    (fcall.name \notin {"none", "manual", "LinearRate"}) =>
        LET p == percent_change(fdata)
        IN  /\ fret.st \in {"ok", "raise"}
            /\ fret.err # "AssertionError: Mismatch in Size"
            /\ fret.st = "raise" => fret.err \in ParameterCheckErrors
            /\ fret.st = "ok" =>
                  /\ Len(fret.val) = Len(p) + fperiod
                  /\ SubSeq(fret.val, 1, Len(p)) = p

C2_Witness ==
    /\ fcall.name = "ConvergingMonteCarlo"
    /\ fret.st = "ok"
    /\ fperiod = 2
    /\ Len(fret.val) = fhist + 2

\* the scenario of C3: [100, 110, 121, 133.1], MovingAverage(window = 4), 1 period
C3_Scenario ==
    /\ fdata = <<I(100), I(110), I(121), Q(1331, 10), NaN>>
    /\ fperiod = 1
    /\ fcall.name = "MovingAverage"
    /\ fcall.window = 4

\* C3 as claimed: the forecast rate is about 0.10 and the compounded forecast
\* value about 146.41.
C3_AsClaimed ==
    C3_Scenario =>
        /\ fret.st = "ok"
        /\ Near(Last(fret.val), Q(1, 10), Q(1, 200))
        /\ fcol.st = "ok" => Near(Last(fcol.val), Q(14641, 100), Q(1, 10))

\* C3 amended: the window of 4 covers the whole percent-change series
\* [0, 0.1, 0.1, 0.1], leading 0 included, so the forecast rate is 0.075 and
\* the compounded forecast value is 133.1 * 1.075 = 143.0825.
C3_RateIncludesLeadingZero ==
    C3_Scenario =>
        /\ fret.st = "ok"
        /\ fret.val = <<I(0), Q(1, 10), Q(1, 10), Q(1, 10), Q(3, 40)>>
        /\ fcol.st \in {"pending", "ok"}
        /\ fcol.st = "ok" =>
              fcol.val = <<I(100), I(110), I(121), Q(1331, 10), Q(1430825, 10000)>>

C3_Witness ==
    C3_Scenario /\ fcol.st = "ok"

\* C4: ConvergingMovingAverage and ConvergingExponentialMovingAverage, for a
\* window in 1..len(p), a non-zero terminal_rate and a horizon >= 1, end on a
\* last forecasted value equal to terminal_rate.
C4_LastEqualsTerminal ==
    ( /\ fcall.name \in {"ConvergingMovingAverage",
                         "ConvergingExponentialMovingAverage"}
      /\ fperiod >= 1
      /\ fcall.window >= 1
      /\ fret.st = "ok" ) =>
        Eq(Last(fret.val), fcall.terminal_rate)

\* C5: LinearRate with a horizon h >= 1 returns without raising h evenly
\* spaced points from the last raw value of data to terminal_rate.
C5_LinearRateReturns ==
    (fcall.name = "LinearRate" /\ fperiod >= 1) =>
        /\ fret.st = "ok"
        /\ Len(fret.val) = fperiod
        /\ Eq(fret.val[1], fdata[fhist])
        /\ Eq(Last(fret.val), fcall.terminal_rate)
        /\ \A j \in 1..(fperiod - 2) :
              Eq(Sub(fret.val[j + 1], fret.val[j]), Sub(fret.val[j + 2], fret.val[j + 1]))

\* the base cell V0 of the column and its cells after the rates were compounded
BaseCell ==
    fdata[fhist]

FutureCells ==
    SubSeq(fcol.val, fhist + 1, fhist + fperiod)

ForecastRates ==
    LastN(fret.val, fperiod)

MaxYears ==
    2

\* dict order of the table built by prepare_data_for_dcf
Columns ==
    <<"revenue", "ebit", "nopat", "da", "capex", "nwc">>

RatesColumn(column) ==
    CASE column = "revenue" -> "revenue_rates"
      [] column = "ebit" -> "ebit_rates"
      [] column = "nopat" -> "nopat_rates"
      [] column = "da" -> "da_rates"
      [] column = "capex" -> "capex_rates"
      [] column = "nwc" -> "nwc_rates"

RECURSIVE Pow(_, _)
Pow(a, k) ==
    IF k = 0 THEN I(1) ELSE Mul(a, Pow(a, k - 1))

Reverse(s) ==
    [j \in 1..Len(s) |-> s[Len(s) + 1 - j]]

\* what the data provider holds for the statement row of `age` years before
\* the latest one, in four companies; a cell the provider's page leaves
\* non-numeric is NaN (pd.to_numeric(errors="coerce"))
ProviderNames ==
    {"steady", "sparse", "declining", "gappy"}

ProviderRow(name, age) ==
    LET h == Pow(I(2), age)
    IN  CASE name = "steady" ->
                [revenue |-> Div(I(16), h), ebitda |-> Div(I(8), h),
                 DA |-> Div(I(4), h), capEx |-> Div(I(-2), h),
                 netWorkingCapital |-> Div(I(4), h), netDebt |-> I(3)]
          [] name = "sparse" ->
                [revenue |-> IF age = 0 THEN I(0) ELSE Div(I(16), h),
                 ebitda |-> Div(I(8), h),
                 DA |-> IF age = 0 THEN I(1) ELSE I(0), capEx |-> I(0),
                 netWorkingCapital |-> Div(I(-4), h), netDebt |-> I(-1)]
          [] name = "gappy" ->
                [revenue |-> Div(I(16), h), ebitda |-> Div(I(8), h),
                 DA |-> IF age = 0 THEN NaN ELSE Div(I(4), h),
                 capEx |-> Div(I(-2), h),
                 netWorkingCapital |-> Div(I(4), h), netDebt |-> I(3)]
          [] name = "declining" ->
                [revenue |-> Mul(I(4), h), ebitda |-> Neg(h),
                 DA |-> I(1), capEx |-> I(-1),
                 netWorkingCapital |-> h, netDebt |-> I(0)]

\* get_macrotrend_data: df[:years_back], the latest rows first
ProviderSheets(name, rows) ==
    [j \in 1..rows |-> ProviderRow(name, j - 1)]

TaxRate ==
    Q(1, 4)

SharesOutstanding ==
    I(4)

ExitMultiple ==
    I(8)

ColumnSet ==
    {Columns[j] : j \in 1..Len(Columns)}

\* one entry of the rate map; is_list tells whether 'manual_rates' holds a list
Cfg(mode, auto_method, parameters, manual_rates) ==
    [mode |-> mode, auto_method |-> auto_method, parameters |-> parameters,
     is_list |-> TRUE, manual_rates |-> manual_rates]

NoParams ==
    <<>>

BaseConfig ==
    Cfg("auto", "MovingAverage", [window |-> 1], <<>>)

ManualRate ==
    Num(Q(1, 2))

ManualLists ==
    {[j \in 1..len |-> ManualRate] : len \in 0..(MaxYears + 1)}

\* the configurations tried for one key of the rate map
FocusConfigs ==
    {Cfg("auto", "MovingAverage", [window |-> 2], <<>>),
     Cfg("AUTO", "ConvergingMovingAverage",
         [window |-> 1, terminal_rate |-> Str("auto")], <<>>),
     Cfg("auto", "ConvergingMovingAverage",
         [window |-> 1, terminal_rate |-> Str("terminal")], <<>>),
     Cfg("auto", "ConvergingMovingAverage",
         [window |-> 1, terminal_rate |-> Str("AuTo")], <<>>),
     Cfg("auto", "ConvergingMovingAverage",
         [window |-> 1, terminal_rate |-> Num(Q(1, 2))], <<>>),
     Cfg("auto", "LinearRate", [terminal_rate |-> Num(Q(1, 2))], <<>>),
     Cfg("auto", "Uniform", [max_randomness |-> Q(1, 2)], <<>>),
     Cfg("auto", "Median", [window |-> 1], <<>>),
     Cfg("hybrid", "Median", [window |-> 1], <<ManualRate>>),
     Cfg("auto", "MovingAverage", NoParams, <<>>),
     Cfg("linear", "MovingAverage", [window |-> 1], <<>>),
     Cfg("manual", "", NoParams, <<Str("5%")>>),
     [Cfg("manual", "", NoParams, <<>>) EXCEPT !.is_list = FALSE],
     Cfg("hybrid", "ConvergingMovingAverage",
         [window |-> 1, terminal_rate |-> Str("Auto")], <<>>)}
    \cup {Cfg("manual", "", NoParams, rates) : rates \in ManualLists}
    \cup {Cfg("hybrid", "MovingAverage", [window |-> 1], rates) : rates \in ManualLists}

FocusKeys ==
    {"revenue", "nwc", "goodwill"}

RateMapWith(key, cfg) ==
    [c \in ColumnSet \cup {key} |-> IF c = key THEN cfg ELSE BaseConfig]

RateMapWithout(key) ==
    [c \in ColumnSet \ {key} |-> BaseConfig]

RateMaps ==
    {RateMapWith(key, cfg) : key \in FocusKeys, cfg \in FocusConfigs}
    \cup {RateMapWithout(key) : key \in FocusKeys \cap ColumnSet}

\* 'Method' as given; "None" stands for an absent key
Methods ==
    {"None", "perpetuity", "exit_multiple", "gordon"}

Wacc ==
    Q(1, 4)

\* what get_cagr finds online when no Terminal_Growth_Rate is given
SearchedRates ==
    {Q(1, 4), Q(1, 2)}

GivenRates ==
    {Str("auto"), Num(Q(1, 8))}

\* 'Exit_Multiple' as given: an 'auto' sentinel or a number
GivenMultiples ==
    {Str("auto"), Num(ExitMultiple)}

\* 'ev_ebidta_multiple_mode' as given; "None" stands for an absent key
MultipleModes ==
    {"None", "historical", "basket"}

\* the configurations of the rate map, each valued with a given exit multiple,
\* and the configurations of the exit multiple over one complete rate map
Configurations ==
    [Forecasted_Period : 0..MaxYears,
     Historical_Period : 0..MaxYears,
     Terminal_Growth_Rate : GivenRates,
     Method : Methods,
     Export : BOOLEAN,
     rate_map : RateMaps,
     Exit_Multiple : {Num(ExitMultiple)},
     ev_ebidta_multiple_mode : {"None"}]
    \cup
    [Forecasted_Period : 0..MaxYears,
     Historical_Period : 0..MaxYears,
     Terminal_Growth_Rate : {Num(Q(1, 8))},
     Method : {"exit_multiple"},
     Export : BOOLEAN,
     rate_map : {[c \in ColumnSet |-> BaseConfig]},
     Exit_Multiple : GivenMultiples,
     ev_ebidta_multiple_mode : MultipleModes]

\* DCF.__init__ is entered with the configuration the caller wrote
Init ==
    /\ manual_input \in Configurations
    /\ InitDCFVars
    /\ fdata = <<>>
    /\ fhist = 0
    /\ fperiod = 0
    /\ fcall = NoCall
    /\ fret = Pending
    /\ fcol = Pending
    /\ InitUnitVars

\* the requests to the named providers, sent by the statement now running
Sent(names) ==
    [j \in 1..Len(names) |-> [to |-> names[j], at |-> pc]]

\* an exception propagates out of DCF.__init__
Fail(e) ==
    /\ pc' = "failed"
    /\ err' = e

\* lines 69-74: the periods are read and checked
ReadPeriods ==
    /\ pc = "init"
    /\ historical_period' = manual_input.Historical_Period
    /\ period' = manual_input.Forecasted_Period
    /\ IF ~(manual_input.Forecasted_Period >= 1)
       THEN Fail("AssertionError: forecast_period")
       ELSE IF ~(manual_input.Historical_Period >= 1)
            THEN Fail("AssertionError: historical_period")
       ELSE pc' = "super" /\ err' = err
    /\ UNCHANGED <<manual_input, sheets, wacc, terminal_rate, dcf, rate_map,
                   method, export, price, col_i, logged, exported,
                   fetchVars, rateVars>>

\* line 75: super().__init__(self.ticker, self.historical_period, ...), which
\* stores its `period` argument in self.period and fetches the statements
PrepareData_init ==
    /\ pc = "super"
    /\ period' = historical_period
    /\ \E name \in ProviderNames, rows \in 0..historical_period :
          /\ sheets' = ProviderSheets(name, rows)
          /\ IF rows = 0
             THEN Fail("IndexError: single positional indexer is out-of-bounds")
             ELSE pc' = "params" /\ err' = err
    /\ requests' = requests \o Sent(<<"macrotrends", "yfinance", "fmp",
                                      "macrotrends", "macrotrends",
                                      "macrotrends">>)
    /\ UNCHANGED <<manual_input, historical_period, wacc, terminal_rate, dcf,
                   rate_map, method, export, price, col_i, logged, exported,
                   ev_ebidta_mode, basket, exit_multiple, rateVars>>

\* lines 87-88: calculate_wacc and get_cagr, each overridden by a manual value
ComputeParameters ==
    /\ pc = "params"
    /\ wacc' = Wacc
    /\ IF manual_input.Terminal_Growth_Rate.k = "num"
       THEN terminal_rate' = manual_input.Terminal_Growth_Rate.v
       ELSE terminal_rate' \in SearchedRates
    /\ requests' = IF manual_input.Terminal_Growth_Rate.k = "num" THEN requests
                   ELSE requests \o Sent(<<"search">>)
    /\ pc' = "prepare"
    /\ UNCHANGED <<manual_input, historical_period, period, sheets, dcf,
                   rate_map, method, export, price, col_i, logged, exported,
                   err, ev_ebidta_mode, basket, exit_multiple, rateVars>>

\* a statement column in ascending date order, reindexed over the table's
\* index: the historical rows, then self.period future rows holding NaN
Reindexed(cells) ==
    Reverse(cells) \o NaNs(period)

prepare_data_for_dcf ==
    LET rows == 1..Len(sheets)
        ebit == [j \in rows |-> Sub(sheets[j].ebitda, sheets[j].DA)]
    IN  [revenue |-> Reindexed([j \in rows |-> sheets[j].revenue]),
         ebit |-> Reindexed(ebit),
         nopat |-> Reindexed([j \in rows |-> Mul(ebit[j], Sub(I(1), TaxRate))]),
         da |-> Reindexed([j \in rows |-> sheets[j].DA]),
         capex |-> Reindexed([j \in rows |-> sheets[j].capEx]),
         nwc |-> Reindexed([j \in rows |-> sheets[j].netWorkingCapital])]

\* line 91
PrepareTable ==
    /\ pc = "prepare"
    /\ dcf' = prepare_data_for_dcf
    /\ pc' = "config"
    /\ UNCHANGED <<manual_input, historical_period, period, sheets, wacc,
                   terminal_rate, rate_map, method, export, price, col_i,
                   logged, exported, err,
                   fetchVars, rateVars>>

\* lines 94-99 and the entry of calculate_share_price and forcast_categories
Configure ==
    /\ pc = "config"
    /\ rate_map' = manual_input.rate_map
    /\ method' = IF manual_input.Method = "None" THEN "perpetuity"
                 ELSE manual_input.Method
    /\ export' = manual_input.Export
    /\ ev_ebidta_mode' = IF manual_input.ev_ebidta_multiple_mode = "None"
                         THEN "basket"
                         ELSE manual_input.ev_ebidta_multiple_mode
    /\ price' = Unset
    /\ col_i' = 1
    /\ pc' = "forecast"
    /\ UNCHANGED <<manual_input, historical_period, period, sheets, wacc,
                   terminal_rate, dcf, logged, exported, err, requests, basket,
                   exit_multiple, rateVars>>

(***************************************************************************)
(* DCF.forcast_categories: one step per column of the table                *)
(***************************************************************************)
TableLen ==
    Len(dcf["revenue"])

\* str(mode).lower()
Lower(mode) ==
    CASE mode \in {"auto", "Auto", "AUTO"} -> "auto"
      [] mode \in {"hybrid", "Hybrid", "HYBRID"} -> "hybrid"
      [] mode \in {"manual", "Manual", "MANUAL"} -> "manual"
      [] OTHER -> mode

\* table[name] = values
Assign(table, name, values) ==
    [c \in DOMAIN table \cup {name} |-> IF c = name THEN values ELSE table[c]]

\* a variant of the call that compounds at the revenue's rates once the table
\* holds them
Compound_AtRevenueRates(table, column) ==
    [table EXCEPT ![column] =
        update_category(table[column],
                        IF "revenue_rates" \in DOMAIN table THEN table["revenue_rates"]
                        ELSE table[RatesColumn(column)],
                        period, historical_period)]

\* self.update_category(column) on a table holding the column's rates
Compound(table, column) ==
    [table EXCEPT ![column] =
        update_category(table[column], table[RatesColumn(column)], period,
                        historical_period)]

\* if params.get('terminal_rate') in ('Auto', 'auto', 'AUTO'): substitute
SubstituteAuto(params) ==
    IF /\ "terminal_rate" \in DOMAIN params
       /\ params.terminal_rate.k = "str"
       /\ params.terminal_rate.s \in {"Auto", "auto", "AUTO"}
    THEN [params EXCEPT !.terminal_rate = Num(terminal_rate)]
    ELSE params

\* what one pass of the loop body leaves behind
Step(e, table, map) ==
    [err |-> e, dcf |-> table, rate_map |-> map]

ValueError ==
    "ValueError: Length of values does not match length of index"

\* a variant that assigns the forecaster's rates and leaves out line 176
AssignForecast_NoUpdate(out, table, map, column) ==
    IF out.st = "raise" THEN Step(out.err, table, map)
    ELSE IF Len(out.val) # TableLen THEN Step(ValueError, table, map)
    ELSE Step("none", Assign(table, RatesColumn(column), out.val), map)

\* dcf[column + '_rates'] = <forecaster outcome>, then line 176
AssignForecast(out, table, map, column) ==
    IF out.st = "raise" THEN Step(out.err, table, map)
    ELSE IF Len(out.val) # TableLen THEN Step(ValueError, table, map)
    ELSE Step("none", Compound(Assign(table, RatesColumn(column), out.val), column), map)

\* lines 142-146 and 176, on a given table and rate map
AutoStepsOn(table, given, column) ==
    LET params == SubstituteAuto(given[column].parameters)
        map == [given EXCEPT ![column].parameters = params]
    IN  { AssignForecast(out, table, map, column) :
            out \in get_auto_rates(period, table[column],
                                   given[column].auto_method, params) }

AutoSteps(column) ==
    AutoStepsOn(dcf, rate_map, column)

\* a variant that reads a missing rate as 0
Numbers_MissingAsZero(rates) ==
    [j \in 1..Len(rates) |-> IF IsNaN(rates[j].v) THEN I(0) ELSE rates[j].v]

\* the rates of a manual_rates list
Numbers(rates) ==
    [j \in 1..Len(rates) |-> rates[j].v]

AllNumeric(rates) ==
    \A j \in 1..Len(rates) : rates[j].k = "num"

\* lines 150-166 and 176, on a given table and rate map
HybridStepsOn(table, given, column) ==
    LET manual_rates == given[column].manual_rates
        params == SubstituteAuto(given[column].parameters)
        diff == period - Len(manual_rates)
        extended == manual_rates \o [j \in 1..diff |-> Num(NaN)]
        map == [given EXCEPT ![column].parameters = params,
                             ![column].manual_rates = extended]
        rates == percent_change(table[column]) \o Numbers(extended)
        partial == Compound(Assign(table, RatesColumn(column), rates), column)
    IN  IF ~given[column].is_list
        THEN {Step("AssertionError: Manual input is not correct datatype", table, given)}
        ELSE IF ~(Len(manual_rates) < period)
        THEN {Step("AssertionError: Mismatch in manual input length", table, given)}
        ELSE IF ~AllNumeric(manual_rates)
        THEN {Step("AssertionError: Invalid Data Type in manual input", table, given)}
        ELSE IF Len(rates) # TableLen
        THEN {Step(ValueError, table, map)}
        ELSE { AssignForecast(out, partial, map, column) :
                 out \in get_auto_rates(diff, partial[column],
                                        given[column].auto_method, params) }

HybridSteps(column) ==
    HybridStepsOn(dcf, rate_map, column)

\* lines 170-174 and 176, on a given table and rate map
ManualStepOn(table, given, column) ==
    LET manual_rates == given[column].manual_rates
        rates == percent_change(table[column]) \o Numbers(manual_rates)
    IN  IF ~given[column].is_list
        THEN Step("AssertionError: Manual input is not correct datatype", table, given)
        ELSE IF Len(manual_rates) # period
        THEN Step("AssertionError: Mismatch in manual input length", table, given)
        ELSE IF ~AllNumeric(manual_rates)
        THEN Step("AssertionError: Invalid Data Type in manual input", table, given)
        ELSE IF Len(rates) # TableLen
        THEN Step(ValueError, table, given)
        ELSE Step("none", Compound(Assign(table, RatesColumn(column), rates), column),
                  given)

ManualStep(column) ==
    ManualStepOn(dcf, rate_map, column)

\* lines 129-176: the body of the loop for one column, on a given table and
\* rate map
StepsOn(table, given, column) ==
    IF column \notin DOMAIN given THEN {Step("none", table, given)}
    ELSE CASE Lower(given[column].mode) = "auto" -> AutoStepsOn(table, given, column)
           [] Lower(given[column].mode) = "hybrid" -> HybridStepsOn(table, given, column)
           [] Lower(given[column].mode) = "manual" -> {ManualStepOn(table, given, column)}
           [] OTHER -> {Step("KeyError: rates column", table, given)}

\* lines 128-176: the loop over the columns taken in a given order, from the
\* k-th on
RECURSIVE RunInOrder(_, _, _)
RunInOrder(steps, order, k) ==
    IF k > Len(order) THEN steps
    ELSE RunInOrder(
            UNION { IF st.err = "none" THEN StepsOn(st.dcf, st.rate_map, order[k])
                    ELSE {st} : st \in steps },
            order, k + 1)

\* the column the loop is at has a mapping of the given mode
AtColumn(mode) ==
    /\ pc = "forecast"
    /\ col_i <= Len(Columns)
    /\ Columns[col_i] \in DOMAIN rate_map
    /\ Lower(rate_map[Columns[col_i]].mode) = mode

Finish(step) ==
    /\ dcf' = step.dcf
    /\ rate_map' = step.rate_map
    /\ IF step.err = "none"
       THEN col_i' = col_i + 1 /\ pc' = pc /\ err' = err
       ELSE col_i' = col_i /\ Fail(step.err)
    /\ UNCHANGED <<manual_input, historical_period, period, sheets, wacc,
                   terminal_rate, method, export, price, logged, exported,
                   fetchVars, rateVars>>

\* lines 132-136: no mapping for the column: print and continue
SkipColumn ==
    /\ pc = "forecast"
    /\ col_i <= Len(Columns)
    /\ Columns[col_i] \notin DOMAIN rate_map
    /\ logged' = logged \cup {Columns[col_i]}
    /\ col_i' = col_i + 1
    /\ UNCHANGED <<pc, manual_input, historical_period, period, sheets, wacc,
                   terminal_rate, dcf, rate_map, method, export, price,
                   exported, err,
                   fetchVars, rateVars>>

ForecastAuto ==
    /\ AtColumn("auto")
    /\ \E step \in AutoSteps(Columns[col_i]) : Finish(step)

ForecastHybrid ==
    /\ AtColumn("hybrid")
    /\ \E step \in HybridSteps(Columns[col_i]) : Finish(step)

ForecastManual ==
    /\ AtColumn("manual")
    /\ Finish(ManualStep(Columns[col_i]))

\* no branch matches the mode: line 176 reads a rates column that is not there
ForecastUnknownMode ==
    /\ pc = "forecast"
    /\ col_i <= Len(Columns)
    /\ Columns[col_i] \in DOMAIN rate_map
    /\ Lower(rate_map[Columns[col_i]].mode) \notin {"auto", "hybrid", "manual"}
    /\ Finish(Step("KeyError: rates column", dcf, rate_map))

HasNaN(table) ==
    \E c \in DOMAIN table : \E r \in 1..Len(table[c]) : IsNaN(table[c][r])

\* line 177, after the loop
CheckNoNaN ==
    /\ pc = "forecast"
    /\ col_i = Len(Columns) + 1
    /\ IF HasNaN(dcf)
       THEN Fail("AssertionError: Detected NaN Values in DCF")
       ELSE pc' = "fcf" /\ err' = err
    /\ UNCHANGED <<manual_input, historical_period, period, sheets, wacc,
                   terminal_rate, dcf, rate_map, method, export, price, col_i,
                   logged, exported,
                   fetchVars, rateVars>>

(***************************************************************************)
(* get_future_fcf, the valuation methods, calculate_share_price            *)
(***************************************************************************)
\* Series.diff(): the first cell is NaN
Diff(cells) ==
    [r \in 1..Len(cells) |-> IF r = 1 THEN NaN ELSE Sub(cells[r], cells[r - 1])]

FillNa(cells, v) ==
    [r \in 1..Len(cells) |-> IF IsNaN(cells[r]) THEN v ELSE cells[r]]

\* s[k:] of a Python sequence, for k >= 0
From(s, k) ==
    IF k >= Len(s) THEN <<>> ELSE SubSeq(s, k + 1, Len(s))

\* a variant of the cash flow that subtracts capex with its sign
Unlevered_CashFlow_SignedCapex(table) ==
    LET delta_nwc == FillNa(Diff(table["nwc"]), I(0))
    IN  [r \in 1..Len(table["nwc"]) |->
            Sub(Sub(Add(table["nopat"][r], table["da"][r]), table["capex"][r]),
                delta_nwc[r])]

\* lines 193-199
Unlevered_CashFlow(table) ==
    LET delta_nwc == FillNa(Diff(table["nwc"]), I(0))
    IN  [r \in 1..TableLen |->
            Sub(Sub(Add(table["nopat"][r], table["da"][r]), AbsQ(table["capex"][r])),
                delta_nwc[r])]

\* lines 201-204: the last self.period cash flows, each discounted by its
\* year, behind a padding of zeros
Present_CashFlow(cash_flows) ==
    LET tail == LastN(cash_flows, period)
        present_cash_flows ==
            [year \in 1..Len(tail) |-> Div(tail[year], Pow(Add(I(1), wacc), year))]
        padding == Len(cash_flows) - Len(present_cash_flows)
    IN  [j \in 1..padding |-> I(0)] \o present_cash_flows

RequiredColumns ==
    {"nopat", "da", "capex", "nwc"}

MissingError ==
    "AssertionError: Missing required columns"

get_future_fcf ==
    /\ pc = "fcf"
    /\ IF RequiredColumns \ DOMAIN dcf # {}
       THEN /\ Fail(MissingError)
            /\ dcf' = dcf
       ELSE /\ LET cash_flows == Unlevered_CashFlow(dcf)
               IN  dcf' = Assign(Assign(Assign(dcf, "delta_nwc", Diff(dcf["nwc"])),
                                        "Unlevered_CashFlow", cash_flows),
                                 "Present_CashFlow", Present_CashFlow(cash_flows))
            /\ pc' = "value"
            /\ err' = err
    /\ UNCHANGED <<manual_input, historical_period, period, sheets, wacc,
                   terminal_rate, rate_map, method, export, price, col_i,
                   logged, exported,
                   fetchVars, rateVars>>

\* balance_sheet['netDebt'].iloc[0]
NetDebt ==
    sheets[1].netDebt

\* a variant of the share price that adds the terminal value undiscounted
SharePrice_Undiscounted(terminal_value) ==
    LET enterprise_value ==
            Add(Sum(From(dcf["Present_CashFlow"], period)), terminal_value)
        equity == Sub(enterprise_value, NetDebt)
    IN  Div(equity, SharesOutstanding)

\* EV less net debt, per share
SharePrice(terminal_value) ==
    LET present_terminal_value == Div(terminal_value, Pow(Add(I(1), wacc), period))
        enterprise_value ==
            Add(Sum(From(dcf["Present_CashFlow"], period)), present_terminal_value)
        equity == Sub(enterprise_value, NetDebt)
    IN  Div(equity, SharesOutstanding)

\* lines 246-253, past the assertion
PerpetuityPrice ==
    LET last_terminal_value == Last(dcf["Unlevered_CashFlow"])
        terminal_value ==
            Div(Mul(last_terminal_value, Add(I(1), terminal_rate)),
                Sub(wacc, terminal_rate))
    IN  SharePrice(terminal_value)

\* lines 220-229, given the multiple get_ev_ebidta_multiple returned
ExitMultiplePrice(multiple) ==
    LET da == Last(dcf["da"])
        ebit == Last(dcf["ebit"])
        terminal_value == Mul(Add(da, ebit), multiple)
    IN  SharePrice(terminal_value)

\* yf_info['enterpriseToEbitda'] of the ticker, fetched by PrepareData.__init__
OwnMultiple ==
    I(10)

Peers ==
    <<"PEER1", "PEER2">>

\* get_yf_info(stock).get('enterpriseToEbitda') of a peer
PeerMultiple(stock) ==
    IF stock = Peers[1] THEN I(6) ELSE I(12)

\* what Finnhub answers to the peers request: a list of peers, which may be
\* empty, or a failure
PeerAnswers ==
    {[st |-> "ok", peers |-> SubSeq(Peers, 1, len)] : len \in 0..Len(Peers)}
    \cup {[st |-> "error", peers |-> <<>>]}

HTTPError ==
    "Exception: Could not request data from Finnhub"

\* get_ev_ebidta_multiple behind @manual_override('Exit_Multiple'): the value
\* it returns or the failure it raises, the requests it sends and the basket
\* it holds, given Finnhub's answer
get_ev_ebidta_multiple(mode, answer) ==
    IF manual_input.Exit_Multiple.k = "num"
    THEN [st |-> "ok", val |-> manual_input.Exit_Multiple.v, sent |-> <<>>,
          basket |-> NoBasket]
    ELSE IF mode = "historical"
    THEN [st |-> "ok", val |-> OwnMultiple, sent |-> <<>>, basket |-> NoBasket]
    ELSE IF answer.st # "ok"
    THEN [st |-> "error", val |-> NaN, sent |-> <<"finnhub">>,
          basket |-> NoBasket]
    ELSE IF answer.peers = <<>>
    THEN [st |-> "ok", val |-> OwnMultiple, sent |-> <<"finnhub">>,
          basket |-> [fetched |-> TRUE, peers |-> <<>>]]
    ELSE LET multiples == [j \in 1..Len(answer.peers) |->
                              PeerMultiple(answer.peers[j])]
         IN  [st |-> "ok", val |-> Div(Sum(multiples), I(Len(multiples))),
              sent |-> <<"finnhub">> \o [j \in 1..Len(answer.peers) |-> "yfinance"],
              basket |-> [fetched |-> TRUE, peers |-> answer.peers]]

Priced(v) ==
    /\ price' = Value(v)
    /\ pc' = "export"
    /\ UNCHANGED <<manual_input, historical_period, period, sheets, wacc,
                   terminal_rate, dcf, rate_map, method, export, col_i,
                   logged, exported, err,
                   fetchVars, rateVars>>

Aborted(e) ==
    /\ Fail(e)
    /\ UNCHANGED <<manual_input, historical_period, period, sheets, wacc,
                   terminal_rate, dcf, rate_map, method, export, price, col_i,
                   logged, exported,
                   fetchVars, rateVars>>

\* lines 297-300 with func = perpetuity_method
perpetuity_method ==
    /\ pc = "value"
    /\ method = "perpetuity"
    /\ IF ~Lt(terminal_rate, wacc)
       THEN Aborted("AssertionError: WACC must be greater than Terminal Rate")
       ELSE Priced(PerpetuityPrice)

\* lines 297-300 with func = exit_multiple_method
exit_multiple_method ==
    /\ pc = "value"
    /\ method = "exit_multiple"
    /\ \E answer \in PeerAnswers :
          LET got == get_ev_ebidta_multiple(ev_ebidta_mode, answer)
          IN  /\ requests' = requests \o Sent(got.sent)
              /\ basket' = got.basket
              /\ IF got.st = "ok"
                 THEN /\ exit_multiple' = got.val
                      /\ price' = Value(ExitMultiplePrice(got.val))
                      /\ pc' = "export"
                      /\ err' = err
                 ELSE /\ Fail(HTTPError)
                      /\ UNCHANGED <<exit_multiple, price>>
    /\ UNCHANGED <<manual_input, historical_period, period, sheets, wacc,
                   terminal_rate, dcf, rate_map, method, export, col_i,
                   logged, exported, ev_ebidta_mode, rateVars>>

\* line 298: the object has no method of that name
UnknownMethod ==
    /\ pc = "value"
    /\ method \notin {"perpetuity", "exit_multiple"}
    /\ Aborted("AssertionError: Unknown Method stype")

\* a variant of lines 301-302 that exports whatever the flag says
Export_Unconditional ==
    /\ pc = "export"
    /\ exported' = TRUE
    /\ pc' = "done"
    /\ UNCHANGED <<manual_input, historical_period, period, sheets, wacc,
                   terminal_rate, dcf, rate_map, method, export, price, col_i,
                   logged, err, fetchVars, rateVars>>

\* lines 301-302
Export ==
    /\ pc = "export"
    /\ exported' = export
    /\ pc' = "done"
    /\ UNCHANGED <<manual_input, historical_period, period, sheets, wacc,
                   terminal_rate, dcf, rate_map, method, export, price, col_i,
                   logged, err,
                   fetchVars, rateVars>>

Next ==
    \/ ReadPeriods
    \/ PrepareData_init
    \/ ComputeParameters
    \/ PrepareTable
    \/ Configure
    \/ SkipColumn
    \/ ForecastAuto
    \/ ForecastHybrid
    \/ ForecastManual
    \/ ForecastUnknownMode
    \/ CheckNoNaN
    \/ get_future_fcf
    \/ perpetuity_method
    \/ exit_multiple_method
    \/ UnknownMethod
    \/ Export

Spec ==
    Init /\ [][Next]_vars

\* the configurations that differ in what the construction reads up to the
\* end of forcast_categories
ForecastConfigurations ==
    {c \in Configurations :
        c.Method = "None" /\ ~c.Export /\ c.ev_ebidta_multiple_mode = "None"}

InitForecast ==
    /\ manual_input \in ForecastConfigurations
    /\ InitDCFVars
    /\ fdata = <<>>
    /\ fhist = 0
    /\ fperiod = 0
    /\ fcall = NoCall
    /\ fret = Pending
    /\ fcol = Pending
    /\ InitUnitVars

\* lines 58-92: DCF.__init__ up to the return of forcast_categories
NextForecast ==
    \/ ReadPeriods
    \/ PrepareData_init
    \/ ComputeParameters
    \/ PrepareTable
    \/ Configure
    \/ SkipColumn
    \/ ForecastAuto
    \/ ForecastHybrid
    \/ ForecastManual
    \/ ForecastUnknownMode
    \/ CheckNoNaN

SpecForecast ==
    InitForecast /\ [][NextForecast]_vars

(***************************************************************************)
(* Properties of a DCF run                                                 *)
(***************************************************************************)
\* the loop of forcast_categories has passed the column without an exception
Passed(column) ==
    \E j \in 1..(col_i - 1) : Columns[j] = column

\* the run is past forcast_categories
Forecasted ==
    pc \in {"fcf", "value", "export", "done"}

\* the number of historical rows of the table
HistoryRows ==
    TableLen - period

\* C1: once the model is constructed with Forecasted_Period = P and
\* Historical_Period = H, both >= 1, self.period equals P in every later
\* state and is never replaced by H.
C1_HorizonIsForecastedPeriod ==
    ( /\ pc # "init"
      /\ manual_input.Forecasted_Period >= 1
      /\ manual_input.Historical_Period >= 1 ) =>
        period = manual_input.Forecasted_Period

\* the rate-map entry of a column rejects its manual_rates against a horizon
RejectsByLength(cfg, horizon) ==
    \/ Lower(cfg.mode) = "manual" /\ Len(cfg.manual_rates) # horizon
    \/ Lower(cfg.mode) = "hybrid" /\ Len(cfg.manual_rates) >= horizon

LengthError ==
    "AssertionError: Mismatch in manual input length"

\* C6: forcast_categories raises at a manual column whenever
\* len(manual_rates) differs from the configured forecast horizon and at a
\* hybrid column whenever len(manual_rates) reaches it, and raises for the
\* length in no other case.
C6_LengthAgainstConfiguredHorizon ==
    LET horizon == manual_input.Forecasted_Period
        given == manual_input.rate_map
    IN  /\ \A c \in ColumnSet \cap DOMAIN given :
              Passed(c) => ~RejectsByLength(given[c], horizon)
        /\ err = LengthError => RejectsByLength(given[Columns[col_i]], horizon)

\* (sum of PV(FCF) + TV / (1 + WACC)^horizon - netDebt) / sharesOutstanding
\* with TV = UFCF_last * (1 + terminal_rate) / (WACC - terminal_rate)
PerpetuityFormula ==
    LET UFCF == dcf["Unlevered_CashFlow"]
        PV == [i \in 1..period |->
                  Div(UFCF[HistoryRows + i], Pow(Add(I(1), wacc), i))]
        TV == Div(Mul(Last(UFCF), Add(I(1), terminal_rate)), Sub(wacc, terminal_rate))
        EV == Add(Sum(PV), Div(TV, Pow(Add(I(1), wacc), period)))
    IN  Div(Sub(EV, sheets[1].netDebt), SharesOutstanding)

WaccError ==
    "AssertionError: WACC must be greater than Terminal Rate"

\* C7: perpetuity_method raises whenever WACC <= terminal_rate and then the
\* price stays unset; when WACC > terminal_rate the price it returns is the
\* perpetuity formula over the horizon the model uses.
C7_PerpetuityMethod ==
    /\ err = WaccError => Le(wacc, terminal_rate) /\ ~price.set
    /\ (method = "perpetuity" /\ pc \in {"export", "done"}) =>
          /\ Lt(terminal_rate, wacc)
          /\ price = Value(PerpetuityFormula)
    /\ (method = "perpetuity" /\ Le(wacc, terminal_rate)) => ~price.set

C7_Witness ==
    /\ method = "perpetuity"
    /\ pc = "done"
    /\ price.set
    /\ IsFinite(price.v)
    /\ period = 2

\* the raising case of C7 is reached as well
C7_RaisedWitness ==
    err = WaccError /\ ~price.set

NaNError ==
    "AssertionError: Detected NaN Values in DCF"

\* C8: a statement column without an entry in the rate map is logged and
\* skipped, and forcast_categories completes without raising.
C8_MissingMappingNonFatal ==
    (logged # {} /\ Len(sheets) = historical_period) => err # NaNError

\* C9: a rate map with a key that is not a statement column of the table
\* makes the run fail in forcast_categories; it never gets past it.
C9_UnregisteredKeyFatal ==
    (DOMAIN manual_input.rate_map \ ColumnSet # {}) => ~Forecasted

RECURSIVE Product(_, _)
Product(s, i) ==
    IF i = 0 THEN I(1) ELSE Mul(Product(s, i - 1), s[i])

\* the column's rate-map entry is in auto or manual mode
AutoOrManual(column) ==
    /\ column \in DOMAIN rate_map
    /\ Lower(rate_map[column].mode) \in {"auto", "manual"}

\* C10: after a column is forecasted in auto or manual mode, its i-th future
\* cell is V0 * (1 + r_1) * .. * (1 + r_i) for every i in 1..horizon, with V0
\* the last historical value and r the last horizon entries of the column's
\* rate series; with fewer historical rows than historical_period nothing is
\* forecasted, the future cells stay empty.
C10_Compounding ==
    \A c \in ColumnSet :
        (pc # "init" /\ Passed(c) /\ AutoOrManual(c)) =>
            LET V0 == dcf[c][HistoryRows]
                r == LastN(dcf[RatesColumn(c)], period)
                growth == [j \in 1..period |-> Add(I(1), r[j])]
            IN  \A i \in 1..period :
                    dcf[c][HistoryRows + i] =
                        IF Len(sheets) = historical_period
                        THEN Mul(V0, Product(growth, i))
                        ELSE NaN

C10_Witness ==
    /\ Passed("revenue")
    /\ AutoOrManual("revenue")
    /\ Lower(rate_map["revenue"].mode) = "manual"
    /\ Passed("ebit")
    /\ period = 2
    /\ Len(sheets) = 2
    /\ dcf["revenue"][4] = Mul(dcf["revenue"][2], Q(9, 4))

\* forcast_categories has been entered: the table is the prepared one or
\* what the loop has made of it
Entered ==
    pc \in {"forecast", "fcf", "value", "export", "done"}
    \/ (pc = "failed" /\ col_i >= 1)

\* C11: forcast_categories, in every mode and whether it completes or
\* raises, leaves every historical cell of every statement column as
\* prepare_data_for_dcf built it, and writes only cells that were empty.
C11_HistoricalCellsUntouched ==
    Entered =>
        LET prepared == prepare_data_for_dcf
        IN  \A c \in ColumnSet :
                /\ Len(dcf[c]) = Len(prepared[c])
                /\ \A r \in 1..Len(prepared[c]) :
                      \/ dcf[c][r] = prepared[c][r]
                      \/ r > Len(sheets) /\ IsNaN(prepared[c][r])

C11_Witness ==
    /\ pc = "fcf"
    /\ Len(sheets) = 2
    /\ Lower(rate_map["revenue"].mode) = "hybrid"
    /\ ~IsNaN(dcf["revenue"][4])
    /\ dcf["revenue"][2] = I(16)

\* forcast_categories raised after it had written cells, and a historical
\* cell that is empty stayed empty
C11_RaisedWitness ==
    /\ pc = "failed"
    /\ col_i >= 2
    /\ Len(sheets) = 1
    /\ IsNaN(sheets[1].DA)
    /\ IsNaN(dcf["da"][1])
    /\ ~IsNaN(dcf["revenue"][2])

(***************************************************************************)
(* get_future_fcf applied to a forecasted table                            *)
(***************************************************************************)
Flat(v, len) ==
    [r \in 1..len |-> I(v)]

Rising(v, len) ==
    [r \in 1..len |-> I(v * r)]

\* tables without an empty cell, as the NaN check of forcast_categories
\* leaves them
FcfTables(len) ==
    {[revenue |-> Flat(16, len), ebit |-> Flat(8, len), nopat |-> nopat,
      da |-> Flat(1, len), capex |-> capex, nwc |-> nwc] :
        nopat \in {Flat(4, len), Rising(3, len)},
        capex \in {Flat(2, len), Rising(-1, len)},
        nwc \in {Flat(3, len), Rising(2, len)}}

Without(table, column) ==
    [c \in DOMAIN table \ {column} |-> table[c]]

\* get_future_fcf is called on a table of rows + years rows that holds all
\* the columns or lacks one of them
InitFcf ==
    /\ \E rows \in 1..MaxYears, years \in 1..MaxYears :
          /\ period = years
          /\ historical_period = rows
          /\ sheets = ProviderSheets("steady", rows)
          /\ \E table \in FcfTables(rows + years) :
                \E column \in RequiredColumns \cup {"none"} :
                    dcf = Without(table, column)
    /\ pc = "fcf"
    /\ manual_input = NoInput
    /\ wacc = Wacc
    /\ terminal_rate = Q(1, 8)
    /\ rate_map = NoRateMap
    /\ method = "perpetuity"
    /\ export = FALSE
    /\ price = Unset
    /\ col_i = Len(Columns) + 1
    /\ logged = {}
    /\ exported = FALSE
    /\ err = "none"
    /\ requests = <<>>
    /\ ev_ebidta_mode = "basket"
    /\ basket = NoBasket
    /\ exit_multiple = NaN
    /\ fdata = <<>>
    /\ fhist = 0
    /\ fperiod = 0
    /\ fcall = NoCall
    /\ fret = Pending
    /\ fcol = Pending
    /\ InitUnitVars

SpecFcf ==
    InitFcf /\ [][get_future_fcf]_vars

\* C13: get_future_fcf sets, for every row of the table, Unlevered_CashFlow
\* to nopat + da - |capex| - dNWC, dNWC being nwc of the row minus nwc of
\* the previous row and 0 for the first row; it raises if nopat, da, capex or
\* nwc is missing.
C13_UnleveredCashFlow ==
    /\ err = MissingError =>
          RequiredColumns \ DOMAIN dcf # {} /\ "Unlevered_CashFlow" \notin DOMAIN dcf
    /\ pc \in {"value", "export", "done"} =>
          /\ RequiredColumns \subseteq DOMAIN dcf
          /\ "Unlevered_CashFlow" \in DOMAIN dcf
    /\ "Unlevered_CashFlow" \in DOMAIN dcf =>
          \A r \in 1..Len(dcf["nwc"]) :
              LET dNWC == IF r = 1 THEN I(0)
                          ELSE Sub(dcf["nwc"][r], dcf["nwc"][r - 1])
              IN  dcf["Unlevered_CashFlow"][r] =
                      Sub(Sub(Add(dcf["nopat"][r], dcf["da"][r]),
                              AbsQ(dcf["capex"][r])), dNWC)

C13_Witness ==
    /\ pc = "value"
    /\ Len(dcf["nwc"]) = 3
    /\ dcf["capex"][3] = I(-3)
    /\ dcf["nwc"] = Rising(2, 3)
    /\ dcf["Unlevered_CashFlow"][3] = Sub(Add(dcf["nopat"][3], I(1)), I(5))

\* the raising case of C13 is reached
C13_RaisedWitness ==
    err = MissingError /\ "capex" \notin DOMAIN dcf

\* the terminal value of the method the run dispatched to
TerminalValue ==
    IF method = "perpetuity"
    THEN Div(Mul(Last(dcf["Unlevered_CashFlow"]), Add(I(1), terminal_rate)),
             Sub(wacc, terminal_rate))
    ELSE Mul(Add(Last(dcf["da"]), Last(dcf["ebit"])), exit_multiple)

\* C14: for both valuation methods, H historical rows and a horizon of P
\* years, P = H or not, the table carries P forecast rows and the enterprise
\* value behind the price is the sum over i in 1..P of UFCF_i / (1 + WACC)^i
\* plus TV / (1 + WACC)^P.
C14_EnterpriseValue ==
    pc \in {"export", "done"} =>
        LET P == manual_input.Forecasted_Period
            H == Len(sheets)
            PV == [i \in 1..P |->
                      Div(dcf["Unlevered_CashFlow"][H + i], Pow(Add(I(1), wacc), i))]
            EV == Add(Sum(PV), Div(TerminalValue, Pow(Add(I(1), wacc), P)))
        IN  /\ TableLen = H + P
            /\ price = Value(Div(Sub(EV, sheets[1].netDebt), SharesOutstanding))

\* the spellings of the sentinel "auto" the configurations use
AutoSpellings ==
    {"auto", "Auto", "AUTO", "AuTo"}

\* forcast_categories raised while it was at the column
FailedAt(column) ==
    /\ pc = "failed"
    /\ col_i \in 1..Len(Columns)
    /\ Columns[col_i] = column

\* the exceptions of hybrid mode that precede the call of the forecaster
BeforeForecaster ==
    {"AssertionError: Manual input is not correct datatype", LengthError,
     "AssertionError: Invalid Data Type in manual input"}

\* C15: in auto mode and in the auto part of hybrid mode, a terminal_rate
\* parameter that is the string "auto" in any letter case reaches the
\* forecaster as the model's CAGR, and a numeric one reaches it unchanged.
C15_AutoTerminalRate ==
    \A c \in ColumnSet \cap DOMAIN manual_input.rate_map :
        LET given == manual_input.rate_map[c]
        IN  ( /\ Lower(given.mode) \in {"auto", "hybrid"}
              /\ "terminal_rate" \in DOMAIN given.parameters
              /\ Passed(c) \/ (FailedAt(c) /\ err \notin BeforeForecaster) ) =>
                LET passedOn == rate_map[c].parameters.terminal_rate
                IN  IF given.parameters.terminal_rate.k = "num"
                    THEN passedOn = given.parameters.terminal_rate
                    ELSE given.parameters.terminal_rate.s \in AutoSpellings =>
                            passedOn = Num(terminal_rate)

C16_ZeroBaseAborts ==
    /\ FailedAt("revenue")
    /\ Lower(rate_map["revenue"].mode) = "hybrid"
    /\ Len(sheets) = historical_period
    /\ dcf["revenue"][HistoryRows] = I(0)
    /\ err = ValueError

\* every column is forecasted and the cash flows are computed
StepsCompleted ==
    /\ col_i = Len(Columns) + 1
    /\ \A c \in ColumnSet : \A r \in 1..Len(dcf[c]) : ~IsNaN(dcf[c][r])
    /\ {"Unlevered_CashFlow", "Present_CashFlow"} \subseteq DOMAIN dcf

\* what holds of the price and the export at every statement
C17_State ==
    /\ price.set =>
          /\ pc \in {"export", "done"}
          /\ StepsCompleted
          /\ method \in {"perpetuity", "exit_multiple"}
    /\ exported => (export /\ price.set /\ pc = "done")
    /\ (pc = "done" /\ export) => exported
    /\ pc = "failed" => (~price.set /\ ~exported /\ err # "none")

\* the statements follow each other in the order of calculate_share_price
C17_Step ==
    /\ (pc = "forecast" /\ pc' # pc) => pc' \in {"fcf", "failed"}
    /\ pc = "fcf" => pc' \in {"value", "failed"}
    /\ pc = "value" =>
          /\ pc' \in {"export", "failed"}
          /\ pc' = "export" <=> price'.set
          /\ pc' = "failed" =>
                err' \in {"AssertionError: Unknown Method stype", WaccError,
                          HTTPError}
    /\ pc = "export" => (pc' = "done" /\ price' = price /\ exported' = export)
    /\ price' # price => pc = "value"
    /\ exported' # exported => pc = "export"

C17_UnknownMethodWitness ==
    /\ pc = "failed"
    /\ method = "gordon"
    /\ StepsCompleted
    /\ export
    /\ ~price.set

\* the statements of DCF.__init__ that run before forecasting starts
BeforeForecasting ==
    {"init", "super", "params", "prepare", "config"}

\* C18: no HTTP request is sent between the start of forecasting and the
\* assignment of the share price, whatever the valuation method and the
\* exit-multiple mode: every request is sent before forecasting starts, and
\* export happens after the price is computed.
C18_NoFetchWhileValuing ==
    /\ \A j \in 1..Len(requests) : requests[j].at \in BeforeForecasting
    /\ exported => price.set

\* C20: when the exit multiple is requested in basket mode and the peer list
\* of the ticker is empty, the run fails with an error: no price is computed
\* from a multiple taken from another source.
C20_EmptyBasketIsAnError ==
    (basket.fetched /\ basket.peers = <<>>) =>
        /\ pc = "failed"
        /\ err # "none"
        /\ ~price.set

\* C19: every forecaster of HistoricalRates works on its own copy: when it
\* has returned or raised, the series the caller passed in has the length and
\* the values it had before the call.
C19_CallerSeriesUnchanged ==
    [][(fcall = NoCall /\ fcall' # NoCall) =>
          /\ Len(fdata') = Len(fdata)
          /\ fdata' = fdata]_vars

C19_Witness ==
    /\ fcall.name = "MovingAverage"
    /\ fcall.window = 1
    /\ fret = Ok(<<I(0), I(1), I(1), I(1)>>)
    /\ fdata = <<I(1), I(2), NaN, NaN>>

\* the raising case of C19 is reached
C19_RaisedWitness ==
    /\ fcall.name = "MeanReverting"
    /\ fret.st = "raise"
    /\ fdata = <<I(1), NaN, NaN>>

\* the quotients (x[i] - x[i-1]) / x[i-1] of the positions where both
\* operands are present and the divisor is not zero, in order
DefinedQuotients(x) ==
    LET positions == [i \in 1..(IF Len(x) = 0 THEN 0 ELSE Len(x) - 1) |-> i]
        defined == SelectSeq(positions,
                             LAMBDA i : /\ IsFinite(x[i]) /\ IsFinite(x[i + 1])
                                        /\ x[i] # I(0))
    IN  [k \in 1..Len(defined) |->
            Div(Sub(x[defined[k] + 1], x[defined[k]]), x[defined[k]])]

\* the part of the rate series of manual mode that percent_change returned
PercentChanges ==
    SubSeq(fret.val, 1, Len(fret.val) - fperiod)

\* C23: percent_change returns 0 followed by (x[i] - x[i-1]) / x[i-1] for
\* exactly the positions where the quotient is defined: a position whose
\* divisor is zero or whose operands are missing is dropped, and no entry of
\* the output is infinite or undefined.
C23_PercentChange ==
    fcall.name = "manual" =>
        /\ PercentChanges = <<I(0)>> \o DefinedQuotients(fdata)
        /\ \A j \in 1..Len(PercentChanges) : IsFinite(PercentChanges[j])

(***************************************************************************)
(* The cost of capital: CapitalCostCalculator and PrepareData              *)
(***************************************************************************)
CapitalCostConfigs ==
    [beta : {Q(1, 2), I(1), I(2)},
     risk_free : {I(0), Q(1, 16)},
     equity_risk_prem : {Q(1, 16), Q(1, 8)},
     tax_rate : {I(0), Q(1, 4)},
     interest_expense : {I(0), I(1)},
     total_debt : {I(1), I(2)},
     total_equity : {I(1), I(2)}]

\* (Ce * (E / (E + D))) + (Cd * (D / (E + D)) * (1 - T))
WeightedCost(Ce, Cd, E, D, T) ==
    Add(Mul(Ce, Div(E, Add(E, D))),
        Mul(Mul(Cd, Div(D, Add(E, D))), Sub(I(1), T)))

\* CapitalCostCalculator.get_cost_of_equity
CapitalCostCalculator_get_cost_of_equity(c) ==
    Add(Add(c.risk_free, c.beta), c.equity_risk_prem)

\* CapitalCostCalculator.get_cost_of_debt
CapitalCostCalculator_get_cost_of_debt(c) ==
    Div(c.interest_expense, c.total_debt)

get_wacc(c) ==
    WeightedCost(CapitalCostCalculator_get_cost_of_equity(c),
                 CapitalCostCalculator_get_cost_of_debt(c),
                 c.total_equity, c.total_debt, c.tax_rate)

\* self.yield_rate is a percentage: get_cost_of_equity divides it by 100
YieldRate(c) ==
    Mul(c.risk_free, I(100))

\* PrepareData.get_cost_of_equity: risk_free + self.beta * equity_risk_premium
get_cost_of_equity(c) ==
    Add(Div(YieldRate(c), I(100)), Mul(c.beta, c.equity_risk_prem))

\* PrepareData.get_cost_of_debt
get_cost_of_debt(c) ==
    Div(c.interest_expense, c.total_debt)

\* PrepareData.calculate_wacc, no manual 'WACC' given
calculate_wacc(c) ==
    WeightedCost(get_cost_of_equity(c), get_cost_of_debt(c),
                 c.total_equity, c.total_debt, c.tax_rate)

InitWacc ==
    /\ capital_cost \in CapitalCostConfigs
    /\ wacc_results = [get_wacc |-> Pending, calculate_wacc |-> Pending]
    /\ override_results = NoResults
    /\ manual_input = NoInput
    /\ InitDCFVars
    /\ fdata = <<>>
    /\ fhist = 0
    /\ fperiod = 0
    /\ fcall = NoCall
    /\ fret = Pending
    /\ fcol = Pending

CallGetWacc ==
    /\ wacc_results # NoResults
    /\ wacc_results.get_wacc = Pending
    /\ wacc_results' = [wacc_results EXCEPT !.get_wacc = Ok(get_wacc(capital_cost))]
    /\ UNCHANGED <<dcfVars, fdata, fhist, fperiod, fcall, fret, fcol,
                   capital_cost, override_results>>

CallCalculateWacc ==
    /\ wacc_results # NoResults
    /\ wacc_results.calculate_wacc = Pending
    /\ wacc_results' =
          [wacc_results EXCEPT !.calculate_wacc = Ok(calculate_wacc(capital_cost))]
    /\ UNCHANGED <<dcfVars, fdata, fhist, fperiod, fcall, fret, fcol,
                   capital_cost, override_results>>

NextWacc ==
    \/ CallGetWacc
    \/ CallCalculateWacc

SpecWacc ==
    InitWacc /\ [][NextWacc]_vars

\* Ce * E/(E+D) + Cd * D/(E+D) * (1 - T) with Cd = interest expense / D and
\* Ce = risk-free + beta * equity risk premium
CapmWacc ==
    LET c == capital_cost
        Ce == Add(c.risk_free, Mul(c.beta, c.equity_risk_prem))
        Cd == Div(c.interest_expense, c.total_debt)
        E == c.total_equity
        D == c.total_debt
    IN  Add(Div(Mul(Ce, E), Add(E, D)),
            Mul(Div(Mul(Cd, D), Add(E, D)), Sub(I(1), c.tax_rate)))

\* C22: for the same inputs CapitalCostCalculator.get_wacc and
\* PrepareData.calculate_wacc both return Ce*E/(E+D) + Cd*D/(E+D)*(1-T) with
\* Cd = interest expense / D and Ce = risk-free + beta * equity risk premium.
C22_WaccImplementationsAgree ==
    wacc_results # NoResults =>
        /\ wacc_results.get_wacc.st = "ok" =>
                wacc_results.get_wacc.val = CapmWacc
        /\ wacc_results.calculate_wacc.st = "ok" =>
                wacc_results.calculate_wacc.val = CapmWacc

(***************************************************************************)
(* manual_init and manual_override on the overridable getters              *)
(***************************************************************************)
\* the keys of calculate_wacc, get_cagr, get_shares_outstanding and
\* get_ev_ebidta_multiple
OverridableKeys ==
    {"WACC", "Terminal_Growth_Rate", "Shares_Outstanding", "Exit_Multiple"}

None ==
    [k |-> "none", v |-> NaN, s |-> ""]

\* the values a caller writes under one key
GivenValues ==
    {None, Str("auto"), Str("Auto"), Str("AUTO"), Str("AuTo"), Num(I(0)),
     Num(I(3))}

GivenDicts ==
    UNION {[keys -> GivenValues] : keys \in SUBSET OverridableKeys}

\* value in (None, 'Auto', 'AUTO', 'auto')
InSentinels(value) ==
    \/ value.k = "none"
    \/ value.k = "str" /\ value.s \in {"Auto", "AUTO", "auto"}

\* manual_init: the dictionary without the keys holding None or a sentinel
manual_init(manual_dict) ==
    LET kept == {key \in DOMAIN manual_dict : ~InSentinels(manual_dict[key])}
    IN  [key \in kept |-> manual_dict[key]]

\* what the decorated function computes when it runs
Automatic(param_name) ==
    CASE param_name = "WACC" -> Num(Wacc)
      [] param_name = "Terminal_Growth_Rate" -> Num(Q(1, 2))
      [] param_name = "Shares_Outstanding" -> Num(SharesOutstanding)
      [] param_name = "Exit_Multiple" -> Num(OwnMultiple)

\* a variant of the wrapper that tests the manual value for truth
manual_override_Truthy(param_name, dict) ==
    LET manual_val == IF param_name \in DOMAIN dict THEN dict[param_name] ELSE None
    IN  IF ~InSentinels(manual_val) /\ manual_val # Num(I(0))
        THEN [returned |-> manual_val, computed |-> FALSE]
        ELSE [returned |-> Automatic(param_name), computed |-> TRUE]

\* manual_override(param_name).wrapper: manual_val = self.manual_input.get(
\* param_name); the value returned and whether func ran
manual_override(param_name, dict) ==
    LET manual_val == IF param_name \in DOMAIN dict THEN dict[param_name] ELSE None
    IN  IF ~InSentinels(manual_val)
        THEN [returned |-> manual_val, computed |-> FALSE]
        ELSE [returned |-> Automatic(param_name), computed |-> TRUE]

InitOverride ==
    /\ \E given \in GivenDicts :
          /\ manual_input = given
          /\ override_results = [given |-> given, got |-> <<>>]
    /\ InitDCFVars
    /\ capital_cost = NoCapitalCost
    /\ wacc_results = NoResults
    /\ fdata = <<>>
    /\ fhist = 0
    /\ fperiod = 0
    /\ fcall = NoCall
    /\ fret = Pending
    /\ fcol = Pending

\* the decorated __init__ is entered: self.manual_input is the cleaned dict
EnterInit ==
    /\ pc = "init"
    /\ override_results # NoResults
    /\ manual_input' = manual_init(manual_input)
    /\ pc' = "constructed"
    /\ UNCHANGED <<historical_period, period, sheets, wacc, terminal_rate,
                   dcf, rate_map, method, export, price, col_i, logged,
                   exported, err, fetchVars, rateVars>>

\* one of the four getters is called on the object
CallGetter ==
    /\ pc = "constructed"
    /\ \E param_name \in OverridableKeys \ DOMAIN override_results.got :
          override_results' =
              [override_results EXCEPT !.got =
                  [key \in DOMAIN @ \cup {param_name} |->
                      IF key = param_name
                      THEN manual_override(param_name, manual_input)
                      ELSE @[key]]]
    /\ UNCHANGED <<dcfVars, fdata, fhist, fperiod, fcall, fret, fcol,
                   capital_cost, wacc_results>>

NextOverride ==
    \/ EnterInit
    \/ CallGetter

SpecOverride ==
    InitOverride /\ [][NextOverride]_vars

\* the caller's dictionary holds a value for the key that is not None and not
\* one of the sentinels "auto", "Auto", "AUTO"
HoldsValue(given, key) ==
    /\ key \in DOMAIN given
    /\ given[key] # None
    /\ given[key] \notin {Str("auto"), Str("Auto"), Str("AUTO")}

\* C21: for each overridable parameter, a manual value that is not None and
\* not a sentinel is returned exactly (0 included) and the automatic
\* computation does not run; with the key absent, None or a sentinel the
\* getter returns the result of the automatic computation.
C21_ManualOverride ==
    override_results # NoResults =>
        \A key \in DOMAIN override_results.got :
            LET given == override_results.given
                got == override_results.got[key]
            IN  IF HoldsValue(given, key)
                THEN got.returned = given[key] /\ ~got.computed
                ELSE got.returned = Automatic(key) /\ got.computed

C21_Witness ==
    /\ override_results # NoResults
    /\ DOMAIN override_results.got = OverridableKeys
    /\ override_results.given = [WACC |-> Str("Auto"), Shares_Outstanding |-> Num(I(0)),
                                 Exit_Multiple |-> None]
    /\ override_results.got["Shares_Outstanding"] =
          [returned |-> Num(I(0)), computed |-> FALSE]
    /\ override_results.got["WACC"] = [returned |-> Num(Wacc), computed |-> TRUE]
    /\ override_results.got["Terminal_Growth_Rate"].computed

\* C24: in MonteCarlo and ConvergingMonteCarlo without a sigma supplied,
\* sigma is computed exactly once, on the first forecast step, from the data
\* of that step, and every later step of the call uses that same value, for
\* every input series (a constant one, of variance 0, included).
C24_SigmaComputedOnce ==
    ( /\ fcall.name \in {"MonteCarlo", "ConvergingMonteCarlo"}
      /\ fcall.sigma2 = I(0)
      /\ Len(fcall.used) >= 1 ) =>
        /\ fcall.used[1] = Var(percent_change(fdata))
        /\ \A j \in 1..Len(fcall.used) : fcall.used[j] = fcall.used[1]
        /\ fcall.computed = 1

\* the last historical rate Uniform starts from
LastRate ==
    Last(percent_change(fdata))

\* C25 as claimed: for Uniform with max_randomness m >= 0 and a last
\* historical rate of either sign, every forecasted value lies within
\* [last * (1 - m), last * (1 + m)], and with m = 0 it equals last.
C25_WithinInterval ==
    (fcall.name = "Uniform" /\ fret.st = "ok") =>
        LET m == fcall.max_randomness
        IN  \A j \in 1..fperiod :
                /\ Le(Mul(LastRate, Sub(I(1), m)), ForecastRates[j])
                /\ Le(ForecastRates[j], Mul(LastRate, Add(I(1), m)))
                /\ m = I(0) => ForecastRates[j] = LastRate

\* C25 amended: every forecasted value lies between last * (1 - m) and
\* last * (1 + m), the first being the lower end for last >= 0 and the upper
\* end for last < 0; with m = 0 every forecasted value equals last.
C25_BetweenEnds ==
    (fcall.name = "Uniform" /\ fret.st = "ok") =>
        LET m == fcall.max_randomness
            a == Mul(LastRate, Sub(I(1), m))
            b == Mul(LastRate, Add(I(1), m))
            lo == IF Le(a, b) THEN a ELSE b
            hi == IF Le(a, b) THEN b ELSE a
        IN  \A j \in 1..fperiod :
                /\ Le(lo, ForecastRates[j])
                /\ Le(ForecastRates[j], hi)
                /\ m = I(0) => ForecastRates[j] = LastRate

C25_Witness ==
    /\ fcall.name = "Uniform"
    /\ fcall.max_randomness = Q(1, 2)
    /\ fret.st = "ok"
    /\ fperiod = 2
    /\ LastRate = Q(-1, 2)
    /\ ForecastRates = <<Q(-1, 4), Q(-5, 8)>>

NoAttributeError ==
    "AssertionError: HistoricalRates has no attribute"

\* C26: a column whose configured forecaster is not a method of
\* HistoricalRates stops forcast_categories, in auto and in hybrid mode, with
\* the error naming the unknown forecaster, raised before any cell of that
\* column has been written.
C26_UnknownForecasterFailsFast ==
    Entered =>
        LET prepared == prepare_data_for_dcf
        IN  \A c \in ColumnSet \cap DOMAIN rate_map :
                ( /\ Lower(rate_map[c].mode) \in {"auto", "hybrid"}
                  /\ rate_map[c].auto_method \notin ForecasterNames ) =>
                    /\ ~Passed(c)
                    /\ (FailedAt(c) /\ err \notin BeforeForecaster \cup {ValueError}) =>
                          /\ err = NoAttributeError
                          /\ dcf[c] = prepared[c]

\* C27: forcast_categories treats the rate map as read-only: after it
\* returns, every entry has the manual_rates list (length and entries) and
\* the parameters mapping (a terminal_rate given as "auto" included) it had
\* before the call.
C27_RateMapReadOnly ==
    Forecasted =>
        \A c \in DOMAIN rate_map :
            /\ rate_map[c].manual_rates = manual_input.rate_map[c].manual_rates
            /\ rate_map[c].parameters = manual_input.rate_map[c].parameters

\* the entry of a column turned into hybrid mode without manual rates
AsEmptyHybrid(given, c) ==
    [given EXCEPT ![c].mode = "hybrid", ![c].manual_rates = <<>>,
                  ![c].is_list = TRUE]

\* the loop of forcast_categories has just passed the column
JustPassed(c) ==
    /\ pc = "forecast"
    /\ col_i >= 2
    /\ Columns[col_i - 1] = c

\* C28: hybrid mode with an empty manual_rates list is equivalent to auto
\* mode: for the same column data, forecaster and parameters, what one mode
\* leaves in the column and in its rate series is an outcome of the other
\* mode, and one mode raises only where the other can.
C28_EmptyHybridIsAuto ==
    \A c \in ColumnSet :
        ( /\ JustPassed(c) \/ FailedAt(c)
          /\ c \in DOMAIN manual_input.rate_map
          /\ \/ Lower(manual_input.rate_map[c].mode) = "auto"
             \/ /\ Lower(manual_input.rate_map[c].mode) = "hybrid"
                /\ manual_input.rate_map[c].is_list
                /\ manual_input.rate_map[c].manual_rates = <<>> ) =>
            LET given == manual_input.rate_map
                before == [dcf EXCEPT ![c] = prepare_data_for_dcf[c]]
                twins == IF Lower(given[c].mode) = "hybrid"
                         THEN AutoStepsOn(before, given, c)
                         ELSE HybridStepsOn(before, AsEmptyHybrid(given, c), c)
            IN  IF JustPassed(c)
                THEN \E st \in twins :
                        /\ st.err = "none"
                        /\ st.dcf[c] = dcf[c]
                        /\ st.dcf[RatesColumn(c)] = dcf[RatesColumn(c)]
                ELSE \E st \in twins : st.err # "none"

C28_Witness ==
    /\ JustPassed("revenue")
    /\ "revenue" \in DOMAIN manual_input.rate_map
    /\ manual_input.rate_map["revenue"] = Cfg("hybrid", "MovingAverage", [window |-> 1], <<>>)
    /\ period = 2
    /\ dcf["revenue"] = <<I(8), I(16), I(32), I(64)>>
    /\ dcf["revenue_rates"] = <<I(0), I(1), I(1), I(1)>>

\* the column orders compared with the order of the table: the reverse, the
\* order that starts at the second column and the one that exchanges the halves
Orders ==
    LET n == Len(Columns)
    IN  {Reverse(Columns)}
        \cup {[j \in 1..n |-> Columns[((j + r - 1) % n) + 1]] : r \in {1, n \div 2}}

\* C29: when forcast_categories completes without raising, every column's
\* final values and rate series are those of the loop run over the columns
\* in any other order.
C29_ColumnOrderIrrelevant ==
    pc = "fcf" =>
        LET start == Step("none", prepare_data_for_dcf, manual_input.rate_map)
        IN  \A order \in Orders :
                \E st \in RunInOrder({start}, order, 1) :
                    /\ st.err = "none"
                    /\ st.dcf = dcf

C29_Witness ==
    /\ pc = "fcf"
    /\ period = 2
    /\ "nwc" \in DOMAIN rate_map
    /\ Lower(rate_map["nwc"].mode) = "hybrid"
    /\ Len(manual_input.rate_map["nwc"].manual_rates) = 1
    /\ dcf["revenue"] = <<I(8), I(16), I(32), I(64)>>

\* the column's value at the latest historical date, as the statements hold it
LatestHistorical(c) ==
    prepare_data_for_dcf[c][Len(sheets)]

\* C30: the value update_category compounds from is the column's value at the
\* latest historical date: with exactly historical_period rows fetched every
\* future cell of a forecasted column is that value times the growth up to
\* it, and with fewer rows no future cell is written and the run does not get
\* past forcast_categories, in auto, hybrid and manual mode.
C30_BaseIsLatestHistoricalCell ==
    /\ Forecasted => Len(sheets) = historical_period
    /\ \A c \in ColumnSet :
          (pc # "init" /\ Passed(c) /\ c \in DOMAIN rate_map) =>
              LET r == LastN(dcf[RatesColumn(c)], period)
                  growth == [j \in 1..period |-> Add(I(1), r[j])]
                  V0 == LatestHistorical(c)
              IN  \A i \in 1..period :
                      dcf[c][HistoryRows + i] =
                          IF Len(sheets) = historical_period
                          THEN Mul(V0, Product(growth, i))
                          ELSE NaN

\* one row fetched where two were asked for: hybrid, manual and auto columns
\* were passed and the run aborted on the empty cells
C30_Witness ==
    /\ pc = "failed"
    /\ err = NaNError
    /\ historical_period = 2
    /\ Len(sheets) = 1
    /\ "revenue" \in DOMAIN rate_map
    /\ Lower(rate_map["revenue"].mode) = "hybrid"
    /\ dcf["revenue"] = <<I(16), NaN, NaN>>

\* two rows fetched where two were asked for: the hybrid column is compounded
\* from the later one
C30_ExactRowsWitness ==
    /\ pc = "fcf"
    /\ historical_period = 2
    /\ Len(sheets) = 2
    /\ "revenue" \in DOMAIN rate_map
    /\ Lower(rate_map["revenue"].mode) = "hybrid"
    /\ dcf["revenue"] = <<I(8), I(16), I(24), I(36)>>

====
